---- MODULE Spec2Model ----
(***************************************************************************)
(* Height field, sculpting brushes and hydraulic erosion of waves.io.      *)
(*                                                                         *)
(* Numbers.  The program computes in IEEE floating point (Float32Array    *)
(* storage, double intermediate values).  The model computes in fixed     *)
(* point: a value v of the program is the integer v * Scale, products and *)
(* quotients are truncated toward zero.  NaN is a value of its own.       *)
(* Rounding of the last digit is therefore the model's, not the           *)
(* program's; comparisons, clamps, guards and the order of the reads and  *)
(* writes are the program's.                                              *)
(***************************************************************************)
EXTENDS Integers, Sequences, FiniteSets, TLC

\* ------------------------------------------------------------------------
\* Bounds of the model
\* ------------------------------------------------------------------------

\* terrain.config.segments: the grid has (Segments + 1)^2 cells
Segments ==
    2

\* number of mutating operations in one behaviour
MaxOps ==
    4

\* the largest share slope / totalOutflow of a cell's water that one
\* neighbour receives in a step the model follows.  A share above 1 (the
\* inertia bonus of another neighbour is negative) multiplies water and
\* sediment; the numbers of the model are 32-bit integers.
MaxFlowRatio ==
    2

\* number of brush strokes, height queries and erosion frames in one behaviour
MaxStrokes ==
    2

\* ------------------------------------------------------------------------
\* Fixed-point arithmetic
\* ------------------------------------------------------------------------

\* the integer that stands for 1.0
Scale ==
    10 ^ 4

\* the value NaN of a number
NaN ==
    -(2 ^ 30)

IsNaN(x) ==
    x = NaN

Abs(x) ==
    IF x < 0 THEN -x ELSE x

Sgn(x) ==
    IF x < 0 THEN -1 ELSE 1

Min2(a, b) ==
    IF a < b THEN a ELSE b

Max2(a, b) ==
    IF a > b THEN a ELSE b

\* a * b of two non-negative fixed-point numbers, without a 32-bit overflow
\* of the intermediate product
MulAbs(a, b) ==
    (a \div Scale) * (b \div Scale) * Scale
    + (a \div Scale) * (b % Scale)
    + (a % Scale) * (b \div Scale)
    + ((a % Scale) * (b % Scale)) \div Scale

\* a * b
Mul(a, b) ==
    Sgn(a) * Sgn(b) * MulAbs(Abs(a), Abs(b))

\* a / b of two non-negative fixed-point numbers, b > 0, without a 32-bit
\* overflow of the intermediate product: the remainder is scaled in two
\* rounds of 100, 100 * 100 = Scale
DivAbs(a, b) ==
    (a \div b) * Scale
    + (((a % b) * 100) \div b) * 100
    + ((((a % b) * 100) % b) * 100) \div b

\* a / b, b # 0
Div(a, b) ==
    Sgn(a) * Sgn(b) * DivAbs(Abs(a), Abs(b))

\* r * r <= x * Scale, decided without forming x * Scale
SqLeq(r, x) ==
    LET q == MulAbs(r, r)
        m == ((r % Scale) * (r % Scale)) % Scale
    IN  q < x \/ (q = x /\ m = 0)

RECURSIVE SqrtSearch(_, _, _)
SqrtSearch(x, lo, hi) ==
    IF lo >= hi THEN lo
    ELSE LET mid == (lo + hi + 1) \div 2
         IN  IF SqLeq(mid, x) THEN SqrtSearch(x, mid, hi)
             ELSE SqrtSearch(x, lo, mid - 1)

\* Math.sqrt(x), x >= 0
Sqrt(x) ==
    SqrtSearch(x, 0, Max2(Scale, x))

RECURSIVE SumTo(_, _)
SumTo(f, n) ==
    IF n < 0 THEN 0 ELSE f[n] + SumTo(f, n - 1)

\* the value Infinity; every finite number of the model is smaller
Inf ==
    2 ^ 30 - 1

IsInf(x) ==
    x = Inf \/ x = -Inf

IsFinite(x) ==
    ~IsNaN(x) /\ ~IsInf(x)

\* a <= b of the program: false when either is NaN
Leq(a, b) ==
    ~IsNaN(a) /\ ~IsNaN(b) /\ a <= b

\* a > b of the program: false when either is NaN
Gt(a, b) ==
    ~IsNaN(a) /\ ~IsNaN(b) /\ a > b

\* a / b of the program on finite numbers, Infinity and NaN
Quot(a, b) ==
    IF IsNaN(a) \/ IsNaN(b) THEN NaN
    ELSE IF IsInf(b) THEN (IF IsInf(a) THEN NaN ELSE 0)
    ELSE IF b = 0 THEN (IF a = 0 THEN NaN ELSE Sgn(a) * Inf)
    ELSE IF IsInf(a) THEN Sgn(a) * Sgn(b) * Inf
    ELSE Div(a, b)

\* a * b of the program on finite numbers, Infinity and NaN
Times(a, b) ==
    IF IsNaN(a) \/ IsNaN(b) THEN NaN
    ELSE IF IsInf(a) \/ IsInf(b)
    THEN (IF a = 0 \/ b = 0 THEN NaN ELSE Sgn(a) * Sgn(b) * Inf)
    ELSE Mul(a, b)

\* a + b of the program on finite numbers, Infinity and NaN
Plus(a, b) ==
    IF IsNaN(a) \/ IsNaN(b) THEN NaN
    ELSE IF IsInf(a) THEN (IF IsInf(b) /\ b # a THEN NaN ELSE a)
    ELSE IF IsInf(b) THEN b
    ELSE a + b

\* -a
Neg(a) ==
    IF IsNaN(a) THEN NaN ELSE -a

\* a - b
Minus(a, b) ==
    Plus(a, Neg(b))

\* x * x
Squared(x) ==
    Times(x, x)

\* Math.max(a, b)
MaxOf(a, b) ==
    IF IsNaN(a) \/ IsNaN(b) THEN NaN ELSE Max2(a, b)

\* Math.sqrt(x)
Root(x) ==
    IF IsNaN(x) \/ x < 0 THEN NaN ELSE IF x = Inf THEN Inf ELSE Sqrt(x)

\* Math.PI
Pi ==
    (31416 * Scale) \div 10000

\* cos(x) for 0 <= x <= Pi / 4 by its series, from x * x
CosSeries(x2) ==
    Scale - Mul(x2, Scale \div 2 - Mul(x2, Scale \div 24 - Mul(x2, Scale \div 720)))

\* sin(x) for 0 <= x <= Pi / 4 by its series, from x and x * x
SinSeries(x, x2) ==
    Mul(x, Scale - Mul(x2, Scale \div 6 - Mul(x2, Scale \div 120)))

\* sin(x) for 0 <= x <= Pi / 4
SinAcute(x) ==
    SinSeries(x, Mul(x, x))

\* cos(Pi * t) for 0 <= t <= 1/2
CosPiQuarter(t) ==
    IF t <= Scale \div 4 THEN CosSeries(Squared(Mul(t, Pi)))
    ELSE SinAcute(Mul(Scale \div 2 - t, Pi))

\* cos(Pi * t) for 0 <= t <= 1
CosPiHalf(t) ==
    IF t <= Scale \div 2 THEN CosPiQuarter(t) ELSE -CosPiQuarter(Scale - t)

\* cos(Pi * t) for 0 <= t <= 2
CosPiTurn(t) ==
    IF t <= Scale THEN CosPiHalf(t) ELSE CosPiHalf(2 * Scale - t)

\* cos(Pi * t)
CosPi(t) ==
    IF IsFinite(t) THEN CosPiTurn(Abs(t) % (2 * Scale)) ELSE NaN

\* sin(Pi * t)
SinPi(t) ==
    IF IsFinite(t) THEN CosPi(t - Scale \div 2) ELSE NaN

\* Math.cos(x)
Cos(x) ==
    CosPi(Quot(x, Pi))

\* Math.sin(x)
Sin(x) ==
    SinPi(Quot(x, Pi))

\* exp(-y) for 0 <= y <= 1/2 by its series
ExpSeries(y) ==
    Scale - Mul(y, Scale - Mul(y, Scale \div 2
                               - Mul(y, Scale \div 6 - Mul(y, Scale \div 24))))

\* exp(-y) for 0 <= y
RECURSIVE ExpNeg(_)
ExpNeg(y) ==
    IF y <= Scale \div 2 THEN ExpSeries(y) ELSE Squared(ExpNeg(y \div 2))

\* Math.exp(x)
Exp(x) ==
    IF IsNaN(x) THEN NaN
    ELSE IF x = -Inf THEN 0
    ELSE IF x = Inf THEN Inf
    ELSE IF x <= 0 THEN ExpNeg(-x)
    ELSE Quot(Scale, ExpNeg(x))

\* atan(t) for |t| <= 1/5 by its series
AtanSeries(t, t2) ==
    Mul(t, Scale - Mul(t2, Scale \div 3 - Mul(t2, Scale \div 5)))

\* tan(a / 2) from t = tan(a), for 0 <= t
HalfTan(t) ==
    Div(t, Scale + Sqrt(Scale + Mul(t, t)))

\* tan(a / 4) from t = tan(a), for 0 <= t
QuarterTan(t) ==
    HalfTan(HalfTan(t))

\* atan(t) for 0 <= t <= 1: four times the angle of the tangent halved twice
AtanUnit(t) ==
    4 * AtanSeries(QuarterTan(t), Mul(QuarterTan(t), QuarterTan(t)))

\* atan(y / x) for 0 <= y and 0 < x, or 0 < y and 0 = x: between 0 and Pi / 2
AtanQuadrant(y, x) ==
    IF y <= x THEN AtanUnit(Div(y, x)) ELSE Pi \div 2 - AtanUnit(Div(x, y))

\* Math.atan2(y, x) of finite numbers; atan2(0, 0) is 0
Atan2(y, x) ==
    IF ~IsFinite(y) \/ ~IsFinite(x) THEN NaN
    ELSE IF x = 0 /\ y = 0 THEN 0
    ELSE IF x >= 0 THEN Sgn(y) * AtanQuadrant(Abs(y), x)
    ELSE IF y >= 0 THEN Pi - AtanQuadrant(y, -x)
    ELSE AtanQuadrant(-y, -x) - Pi

\* ------------------------------------------------------------------------
\* TerrainSystem: the height field and its mirrors
\* ------------------------------------------------------------------------

\* terrain.config.size / terrain.config.segments of the default configuration
CellSize ==
    Scale

\* terrain.config.size
TerrainSize ==
    Segments * CellSize

\* terrain.config.minHeight
MinHeight ==
    -5 * Scale

\* terrain.config.maxHeight
MaxHeight ==
    15 * Scale

\* segments + 1
GridSize ==
    Segments + 1

CellCount ==
    GridSize * GridSize

Cells ==
    0 .. CellCount - 1

RowOf(index) ==
    index \div GridSize

ColOf(index) ==
    index % GridSize

\* the world x (z) coordinate of grid column (row) j, as PlaneGeometry lays
\* the vertices out
VertexCoord(j) ==
    j * CellSize - TerrainSize \div 2

VARIABLES
    heightmap,      \* terrain.heightmap
    positionsY,     \* terrain.geometry.attributes.position.array[3 i + 1]
    textureData     \* terrain.heightmapTexture.image.data

terrainVars ==
    <<heightmap, positionsY, textureData>>

\* Math.floor of a fixed-point number, as a plain integer
Floor(x) ==
    x \div Scale

\* Math.ceil of a fixed-point number, as a plain integer
Ceil(x) ==
    -((-x) \div Scale)

\* ((x + halfSize) / size) * segments.  The quotient is formed last, so that
\* the fixed-point result is exact wherever the program's is (a vertex
\* coordinate maps to its own column).
GridCoord(x) ==
    Div(Mul(x + TerrainSize \div 2, Segments * Scale), TerrainSize)

\* Math.floor(g), without the clamp
FloorUnclamped(g) ==
    Floor(g)

\* Math.floor(Math.max(0, Math.min(segments, g)))
ClampFloor(g) ==
    Floor(Max2(0, Min2(Segments * Scale, g)))

\* the index getHeightAt reads
HeightIndexAt(x, z) ==
    ClampFloor(GridCoord(z)) * (Segments + 1) + ClampFloor(GridCoord(x))

\* TerrainSystem.getHeightAt
GetHeightAtValue(hm, x, z) ==
    LET index == HeightIndexAt(x, z)
    IN  IF index \in DOMAIN hm THEN hm[index] ELSE 0

\* TerrainSystem.applyHeightmapChanges on the heights: changes is a function
\* from the changed indices to their new heights
ChangedHeightmap(hm, changes) ==
    [i \in DOMAIN hm |-> IF i \in DOMAIN changes THEN changes[i] ELSE hm[i]]

\* vertex positions that no change reaches
ChangedPositionsStale(pos, changes) ==
    pos

\* TerrainSystem.applyHeightmapChanges on the vertex positions
ChangedPositions(pos, changes) ==
    [i \in DOMAIN pos |-> IF i \in DOMAIN changes THEN changes[i] ELSE pos[i]]

\* TerrainSystem.updateHeightmapTexture
UpdatedTexture(hm) ==
    [i \in DOMAIN hm |-> hm[i]]

\* the box of getHeightmapRegion, from the centre and the radius in grid units
RegionBox(centerGridX, centerGridZ, gridRadius) ==
    {i * (Segments + 1) + j :
        i \in Max2(0, Floor(centerGridZ - gridRadius))
               .. Min2(Segments, Ceil(centerGridZ + gridRadius)),
        j \in Max2(0, Floor(centerGridX - gridRadius))
               .. Min2(Segments, Ceil(centerGridX + gridRadius))}

\* TerrainSystem.getHeightmapRegion: the indices of the box
RegionIndices(centerX, centerZ, radius) ==
    RegionBox(GridCoord(centerX), GridCoord(centerZ),
              Div(Mul(radius, Segments * Scale), TerrainSize))

\* ------------------------------------------------------------------------
\* ErosionSystem (grid simulator): configuration and maps
\* ------------------------------------------------------------------------

\* defaultErosionConfig, with config.cellSize as the constructor sets it
DefaultErosionConfig ==
    [ rainfallRate        |-> Scale \div 100,
      erosionRate         |-> (3 * Scale) \div 10,
      depositionRate      |-> (3 * Scale) \div 10,
      evaporationRate     |-> Scale \div 100,
      maxErosion          |-> Scale \div 10,
      minSlopeForFlow     |-> Scale \div 1000,
      cellSize            |-> CellSize,
      minWaterForFlow     |-> Scale \div 10000,
      debugAggressive     |-> FALSE,
      capacityConstant    |-> 10 * Scale,
      maxSedimentCapacity |-> Scale,
      flowInertia         |-> (3 * Scale) \div 10 ]

\* { ...config, ...partial }
Merge(cfg, partial) ==
    [k \in DOMAIN cfg |-> IF k \in DOMAIN partial THEN partial[k] ELSE cfg[k]]

VARIABLES
    config,                 \* this.config
    waterMap,               \* this.waterMap
    sedimentMap,            \* this.sedimentMap
    flowMap,                \* this.flowMap
    flowDirectionMap,       \* this.flowDirectionMap, two entries per cell
    heightDeltaMap,         \* this.heightDeltaMap
    cumulativeErosionMap,   \* this.cumulativeErosionMap
    persistentFlowMap       \* this.persistentFlowMap

erosionVars ==
    <<config, waterMap, sedimentMap, flowMap, flowDirectionMap, heightDeltaMap,
      cumulativeErosionMap, persistentFlowMap>>

\* new Float32Array(cellCount)
ZeroMap ==
    [i \in Cells |-> 0]

\* new Float32Array(cellCount * 2)
ZeroDirMap ==
    [i \in 0 .. 2 * CellCount - 1 |-> 0]

\* the four neighbours of a cell, in the order North, South, West, East
Neighbors(row, col) ==
    << [row |-> row - 1, col |-> col, index |-> (row - 1) * GridSize + col,
        dirX |-> 0, dirZ |-> -1],
       [row |-> row + 1, col |-> col, index |-> (row + 1) * GridSize + col,
        dirX |-> 0, dirZ |-> 1],
       [row |-> row, col |-> col - 1, index |-> row * GridSize + (col - 1),
        dirX |-> -1, dirZ |-> 0],
       [row |-> row, col |-> col + 1, index |-> row * GridSize + (col + 1),
        dirX |-> 1, dirZ |-> 0] >>

\* a neighbour counted as in the grid by its index alone
IndexInGrid(n) ==
    n.index \in Cells

\* the neighbour n lies in the grid
InGrid(n) ==
    n.row >= 0 /\ n.row < GridSize /\ n.col >= 0 /\ n.col < GridSize

\* the effective rates of one step (debugAggressive multipliers)
EffectiveRainfallRate(cfg) ==
    IF cfg.debugAggressive THEN cfg.rainfallRate * 10 ELSE cfg.rainfallRate

EffectiveErosionRate(cfg) ==
    IF cfg.debugAggressive THEN cfg.erosionRate * 5 ELSE cfg.erosionRate

EffectiveMaxErosion(cfg) ==
    IF cfg.debugAggressive THEN cfg.maxErosion * 10 ELSE cfg.maxErosion

EffectiveEvaporationRate(cfg) ==
    IF cfg.debugAggressive THEN 0 ELSE cfg.evaporationRate

\* 1. rainfall
Rainfall(cfg, water) ==
    [i \in Cells |-> water[i] + EffectiveRainfallRate(cfg)]

\* a * b where either may be NaN
MulN(a, b) ==
    IF IsNaN(a) \/ IsNaN(b) THEN NaN ELSE Mul(a, b)

\* a + b where either may be NaN
AddN(a, b) ==
    IF IsNaN(a) \/ IsNaN(b) THEN NaN ELSE a + b

\* a - b where either may be NaN
SubN(a, b) ==
    IF IsNaN(a) \/ IsNaN(b) THEN NaN ELSE a - b

\* a / b of the program: 0 / 0 is NaN
DivN(a, b) ==
    IF IsNaN(a) \/ IsNaN(b) \/ b = 0 THEN NaN ELSE Div(a, b)

\* slope + inertiaBonus of an in-grid neighbour n, or 0 for a slope that
\* does not exceed minSlopeForFlow
WithInertia(cfg, fdOld, index, n, slope) ==
    IF slope > cfg.minSlopeForFlow
    THEN IF cfg.flowInertia > 0
         THEN LET dotProduct ==
                      AddN(MulN(fdOld[index * 2], n.dirX * Scale),
                           MulN(fdOld[index * 2 + 1], n.dirZ * Scale))
                  inertiaBonus ==
                      MulN(MulN(dotProduct, cfg.flowInertia), slope)
              IN  AddN(slope, inertiaBonus)
         ELSE slope
    ELSE 0

\* the entry slopes.push(...) of one neighbour: 0, or the slope with its
\* inertia bonus
AdjustedSlope(cfg, hm, fdOld, index, n) ==
    IF ~InGrid(n) THEN 0
    ELSE WithInertia(cfg, fdOld, index, n,
                     Div(hm[index] - hm[n.index], CellSize))

\* the array slopes of one cell
Slopes(cfg, hm, fdOld, index, nbrs) ==
    << AdjustedSlope(cfg, hm, fdOld, index, nbrs[1]),
       AdjustedSlope(cfg, hm, fdOld, index, nbrs[2]),
       AdjustedSlope(cfg, hm, fdOld, index, nbrs[3]),
       AdjustedSlope(cfg, hm, fdOld, index, nbrs[4]) >>

RECURSIVE SumSlopes(_, _)
SumSlopes(slopes, i) ==
    IF i = 0 THEN 0 ELSE AddN(SumSlopes(slopes, i - 1), slopes[i])

\* current * (1 - weight) + dir * weight
WeightedDirection(current, dir, weight) ==
    AddN(MulN(current, SubN(Scale, weight)), MulN(dir * Scale, weight))

\* the transport of flow and sedimentFlow from cell index to neighbour n;
\* st holds newWaterMap (w), newSedimentMap (s), newFlowDirectionMap (fd)
\* and the running waterOutflow (out)
Transport(st, index, n, waterAmount, flow, sedimentFlow) ==
    [st EXCEPT
       !.w = [@ EXCEPT ![n.index] = @ + flow],
       !.s = IF waterAmount > 0
             THEN [@ EXCEPT ![n.index] = @ + sedimentFlow,
                            ![index] = @ - sedimentFlow]
             ELSE @,
       !.fd = [@ EXCEPT
                 ![n.index * 2] =
                     WeightedDirection(@, n.dirX, DivN(flow, waterAmount)),
                 ![n.index * 2 + 1] =
                     WeightedDirection(@, n.dirZ, DivN(flow, waterAmount))],
       !.out = @ + flow]

\* the share flowRatio of the water of cell index goes to neighbour n, with
\* all of the sediment of the cell
TransportAllSediment(st, index, n, waterAmount, sedimentAmount, flowRatio) ==
    Transport(st, index, n, waterAmount,
              Mul(waterAmount, flowRatio), sedimentAmount)

\* the share flowRatio of the water and the sediment of cell index goes to
\* neighbour n
TransportRatio(st, index, n, waterAmount, sedimentAmount, flowRatio) ==
    Transport(st, index, n, waterAmount,
              Mul(waterAmount, flowRatio), Mul(sedimentAmount, flowRatio))

\* the transport from cell index to neighbour n that led from the maps
\* before to the maps after, added to the transports of the step (moves):
\* what the neighbour gained, with the amounts and the slopes it was
\* computed from, and the sediment the cell lost
Noted(after, before, index, n, slope, totalOutflow, waterAmount, sedimentAmount) ==
    [after EXCEPT
       !.moves = @ \cup {[from |-> index, to |-> n.index,
                          water |-> after.w[n.index] - before.w[n.index],
                          sediment |-> after.s[n.index] - before.s[n.index],
                          lost |-> before.s[index] - after.s[index],
                          slope |-> slope, totalOutflow |-> totalOutflow,
                          waterAmount |-> waterAmount,
                          sedimentAmount |-> sedimentAmount]}]

\* one pass of the loop that distributes water and sediment of cell index
\* to its neighbours
DistributeTo(st, index, n, slope, totalOutflow, waterAmount, sedimentAmount) ==
    IF slope > 0 /\ InGrid(n)
    THEN Noted(TransportRatio(st, index, n, waterAmount, sedimentAmount,
                              Div(slope, totalOutflow)),
               st, index, n, slope, totalOutflow, waterAmount, sedimentAmount)
    ELSE st

RECURSIVE Distribute(_, _, _, _, _, _, _, _)
Distribute(st, index, nbrs, slopes, totalOutflow, waterAmount, sedimentAmount, i) ==
    IF i > 4 THEN st
    ELSE Distribute(
             DistributeTo(st, index, nbrs[i], slopes[i], totalOutflow,
                          waterAmount, sedimentAmount),
             index, nbrs, slopes, totalOutflow, waterAmount, sedimentAmount, i + 1)

\* the weighted average of one direction component over the neighbours that
\* received outflow
AvgDir(nbrs, slopes, totalOutflow, comp) ==
    LET term(i) == IF slopes[i] > 0
                   THEN (IF comp = "x" THEN nbrs[i].dirX ELSE nbrs[i].dirZ)
                        * Div(slopes[i], totalOutflow)
                   ELSE 0
    IN  term(1) + term(2) + term(3) + term(4)

\* what follows the distribution d of the water of cell index when the
\* water that flowed out is left on the cell
OutflowKept(d, index, nbrs, slopes, totalOutflow, waterAmount) ==
    [d EXCEPT
       !.fd = IF d.out > 0
              THEN [@ EXCEPT
                      ![index * 2] = AvgDir(nbrs, slopes, totalOutflow, "x"),
                      ![index * 2 + 1] = AvgDir(nbrs, slopes, totalOutflow, "z")]
              ELSE @,
       !.fm = [@ EXCEPT ![index] = Mul(Sqrt(waterAmount), totalOutflow \div 4)]]

\* what follows the distribution d of the water of cell index: the water
\* that flowed out leaves the cell, its flow direction and its velocity
Outflow(d, index, nbrs, slopes, totalOutflow, waterAmount) ==
    [d EXCEPT
       !.w = [@ EXCEPT ![index] = @ - d.out],
       !.fd = IF d.out > 0
              THEN [@ EXCEPT
                      ![index * 2] = AvgDir(nbrs, slopes, totalOutflow, "x"),
                      ![index * 2 + 1] = AvgDir(nbrs, slopes, totalOutflow, "z")]
              ELSE @,
       !.fm = [@ EXCEPT ![index] = Mul(Sqrt(waterAmount), totalOutflow \div 4)]]

\* 2. water flow of one cell with the neighbours nbrs and their slopes; st
\* additionally holds this.flowMap (fm), and whether every share so far is
\* within MaxFlowRatio (fits)
FlowAlong(cfg, st, index, nbrs, slopes) ==
    LET waterAmount == st.w[index]
        sedimentAmount == st.s[index]
        totalOutflow == SumSlopes(slopes, 4)
    IN  IF waterAmount < cfg.minWaterForFlow THEN st
        ELSE IF ~IsNaN(totalOutflow) /\ totalOutflow > 0
                /\ \E i \in 1 .. 4 : slopes[i] > MaxFlowRatio * totalOutflow
        THEN [st EXCEPT !.fits = FALSE]
        ELSE IF ~IsNaN(totalOutflow) /\ totalOutflow > 0
        THEN Outflow(Distribute([st EXCEPT !.out = 0], index, nbrs, slopes,
                                totalOutflow, waterAmount, sedimentAmount, 1),
                     index, nbrs, slopes, totalOutflow, waterAmount)
        ELSE [st EXCEPT !.fm = [@ EXCEPT ![index] = 0],
                        !.fd = [@ EXCEPT ![index * 2] = 0, ![index * 2 + 1] = 0]]

\* 2. water flow of one cell
FlowCell(cfg, hm, fdOld, st, index) ==
    FlowAlong(cfg, st, index, Neighbors(RowOf(index), ColOf(index)),
              Slopes(cfg, hm, fdOld, index,
                     Neighbors(RowOf(index), ColOf(index))))

RECURSIVE FlowPhase(_, _, _, _, _)
FlowPhase(cfg, hm, fdOld, st, index) ==
    IF index >= CellCount \/ ~st.fits THEN st
    ELSE FlowPhase(cfg, hm, fdOld, FlowCell(cfg, hm, fdOld, st, index), index + 1)

\* Math.max(0, slope) to one neighbour, 0 for a neighbour outside the grid
DownhillSlope(hm, index, n) ==
    IF InGrid(n) THEN Max2(0, Div(hm[index] - hm[n.index], CellSize)) ELSE 0

\* the average of the downhill slopes of a cell to its in-grid neighbours
\* nbrs
AvgSlopeOver(hm, index, nbrs) ==
    LET neighborCount == Cardinality({i \in 1 .. 4 : InGrid(nbrs[i])})
        total == DownhillSlope(hm, index, nbrs[1])
                 + DownhillSlope(hm, index, nbrs[2])
                 + DownhillSlope(hm, index, nbrs[3])
                 + DownhillSlope(hm, index, nbrs[4])
    IN  IF neighborCount > 0 THEN total \div neighborCount ELSE total

\* the average of the downhill slopes of a cell to its in-grid neighbours
AvgSlope(cfg, hm, index) ==
    AvgSlopeOver(hm, index, Neighbors(RowOf(index), ColOf(index)))

\* Math.min(velocity * waterAmount * avgSlope * capacityConstant, maxCapacity)
SedimentCapacity(cfg, velocity, waterAmount, avgSlope) ==
    LET capacityConstant == IF cfg.capacityConstant = 0 THEN 10 * Scale
                            ELSE cfg.capacityConstant
        maxCapacity == IF cfg.maxSedimentCapacity = 0 THEN Scale
                       ELSE cfg.maxSedimentCapacity
    IN  Min2(Mul(Mul(Mul(velocity, waterAmount), avgSlope), capacityConstant),
             maxCapacity)

\* the threshold 0.0001 below which an erosion or a deposit is dropped
MinChange ==
    Scale \div 10000

\* an erosion that does not stop at minHeight
ErodedHeightUnclamped(currentHeight, erosion) ==
    currentHeight - erosion

\* the new height of an eroded cell
ErodedHeight(currentHeight, erosion) ==
    Max2(currentHeight - erosion, MinHeight)

\* the new height of a cell that received a deposit
DepositedHeight(currentHeight, deposit) ==
    Min2(currentHeight + deposit, MaxHeight)

\* a deposit that leaves the sediment of the cell as it was
SedimentKeptAfterDeposit(currentSediment, deposit) ==
    currentSediment

\* the sediment left on a cell after a deposit
SedimentAfterDeposit(currentSediment, deposit) ==
    Max2(0, currentSediment - deposit)

\* a cell that neither erodes nor deposits
Untouched(currentHeight, currentSediment) ==
    [kind |-> "none", amount |-> 0, height |-> currentHeight,
     sediment |-> currentSediment]

\* an erosion that maxErosion does not limit
ErosionUncapped(cfg, waterAmount, velocity, avgSlope, deficit) ==
    Min2(Mul(deficit, EffectiveErosionRate(cfg)),
         Mul(Mul(Mul(waterAmount, velocity), avgSlope), EffectiveErosionRate(cfg)))

\* Math.min(deficit * rate, maxErosion, waterAmount * velocity * avgSlope * rate)
Erosion(cfg, waterAmount, velocity, avgSlope, deficit) ==
    Min2(Min2(Mul(deficit, EffectiveErosionRate(cfg)), EffectiveMaxErosion(cfg)),
         Mul(Mul(Mul(waterAmount, velocity), avgSlope), EffectiveErosionRate(cfg)))

\* the branch ERODE of a cell
Eroded(currentHeight, currentSediment, erosion) ==
    IF erosion > MinChange
    THEN [kind |-> "erode", amount |-> erosion,
          height |-> ErodedHeight(currentHeight, erosion),
          sediment |-> currentSediment + erosion]
    ELSE Untouched(currentHeight, currentSediment)

\* the branch DEPOSIT of a cell
Deposited(currentHeight, currentSediment, deposit) ==
    IF deposit > MinChange
    THEN [kind |-> "deposit", amount |-> deposit,
          height |-> DepositedHeight(currentHeight, deposit),
          sediment |-> SedimentAfterDeposit(currentSediment, deposit)]
    ELSE Untouched(currentHeight, currentSediment)

\* an erosion followed, in the same cell, by the deposit of what the cell
\* then carries above its capacity
ErodeAndDeposit(cfg, waterAmount, velocity, currentSediment, currentHeight, avgSlope, sedimentCapacity) ==
    IF waterAmount < cfg.minWaterForFlow
    THEN Untouched(currentHeight, currentSediment)
    ELSE IF currentSediment < sedimentCapacity
    THEN LET e == Eroded(currentHeight, currentSediment,
                         Erosion(cfg, waterAmount, velocity, avgSlope,
                                 sedimentCapacity - currentSediment))
         IN  IF e.sediment > sedimentCapacity
             THEN Deposited(e.height, e.sediment,
                            Mul(e.sediment - sedimentCapacity, cfg.depositionRate))
             ELSE e
    ELSE IF currentSediment > sedimentCapacity
    THEN Deposited(currentHeight, currentSediment,
                   Mul(currentSediment - sedimentCapacity, cfg.depositionRate))
    ELSE Untouched(currentHeight, currentSediment)

\* erosion or deposition of a cell, by its sediment capacity
ErodeOrDeposit(cfg, waterAmount, velocity, currentSediment, currentHeight, avgSlope, sedimentCapacity) ==
    IF waterAmount < cfg.minWaterForFlow
    THEN Untouched(currentHeight, currentSediment)
    ELSE IF currentSediment < sedimentCapacity
    THEN Eroded(currentHeight, currentSediment,
                Erosion(cfg, waterAmount, velocity, avgSlope,
                        sedimentCapacity - currentSediment))
    ELSE IF currentSediment > sedimentCapacity
    THEN Deposited(currentHeight, currentSediment,
                   Mul(currentSediment - sedimentCapacity, cfg.depositionRate))
    ELSE Untouched(currentHeight, currentSediment)

\* erosion or deposition of a cell, by the average slope around it
ErodeOnSlope(cfg, waterAmount, velocity, currentSediment, currentHeight, avgSlope) ==
    ErodeOrDeposit(cfg, waterAmount, velocity, currentSediment, currentHeight,
                   avgSlope,
                   SedimentCapacity(cfg, velocity, waterAmount, avgSlope))

\* 3. erosion and deposition of one cell: what the cell erodes ("erode"),
\* deposits ("deposit") or neither ("none"), by how much, and its new height
ErodeCell(cfg, hm, w, fm, s, index) ==
    ErodeOnSlope(cfg, w[index], fm[index], s[index], hm[index],
                 AvgSlope(cfg, hm, index))

\* a step without evaporation
EvaporateNothing(cfg, w) ==
    w

\* 4. evaporation
Evaporate(cfg, w) ==
    [i \in Cells |-> Max2(0, Mul(w[i], Scale - EffectiveEvaporationRate(cfg)))]

\* the decay factor of the persistent flow
FlowDecay ==
    (95 * Scale) \div 100

\* the decayed persistent flow of one cell and the new flow added to it
AddedFlow(decayed, flow) ==
    IF flow > Scale \div 100
    THEN Min2(decayed + Mul(flow, Scale \div 10), Scale)
    ELSE decayed

\* the persistent flow of one cell after a step
PersistentFlow(p, flow) ==
    AddedFlow(Mul(p, FlowDecay), flow)

\* the outcome c of one cell on the maps of the step; acc holds
\* newSedimentMap (s), this.heightDeltaMap (delta) and heightChanges, as the
\* set of its keys (changed) and its values (heights)
Recorded(acc, index, c) ==
    IF c.kind = "none" THEN acc
    ELSE [acc EXCEPT !.s = [@ EXCEPT ![index] = c.sediment],
                     !.delta = [@ EXCEPT ![index] =
                                   IF c.kind = "erode" THEN -c.amount
                                   ELSE c.amount],
                     !.heights = [@ EXCEPT ![index] = c.height],
                     !.changed = @ \cup {index}]

\* 3. erosion and deposition of one cell on the maps of the step
ErodeTo(cfg, hm, routed, acc, index) ==
    Recorded(acc, index,
             ErodeCell(cfg, hm, routed.w, routed.fm, routed.s, index))

RECURSIVE ErodePhase(_, _, _, _, _)
ErodePhase(cfg, hm, routed, acc, index) ==
    IF index >= CellCount THEN acc
    ELSE ErodePhase(cfg, hm, routed, ErodeTo(cfg, hm, routed, acc, index), index + 1)

\* what a step leaves behind, from the maps after the water flow (routed)
\* and after erosion and deposition (eroded)
StepOutcome(cfg, routed, eroded) ==
    [ heightChanges |-> [i \in eroded.changed |-> eroded.heights[i]],
      newWaterMap |-> Evaporate(cfg, routed.w),
      newSedimentMap |-> eroded.s,
      newFlowDirectionMap |-> routed.fd,
      flowMap |-> routed.fm,
      heightDeltaMap |-> eroded.delta,
      fits |-> routed.fits,
      routedWater |-> routed.w,
      moves |-> routed.moves ]

\* phases 3 and 4 of a step, from the maps after the water flow
StepAfterFlow(cfg, hm, routed) ==
    StepOutcome(cfg, routed,
                ErodePhase(cfg, hm, routed,
                           [s |-> routed.s, delta |-> ZeroMap, heights |-> hm,
                            changed |-> {}], 0))

\* ErosionSystem.step: everything one call computes
StepResult(cfg, hm, water, sediment, flow, fdOld) ==
    StepAfterFlow(cfg, hm,
                  FlowPhase(cfg, hm, fdOld,
                            [w |-> Rainfall(cfg, water), s |-> sediment,
                             fd |-> fdOld, fm |-> flow, out |-> 0,
                             fits |-> TRUE, moves |-> {}], 0))

\* ------------------------------------------------------------------------
\* Brushes
\* ------------------------------------------------------------------------

\* cosineFalloff
CosineFalloff(distance, radius) ==
    Times(Plus(CosPi(Quot(distance, radius)), Scale), Scale \div 2)

\* gaussianFalloff, from sigma = radius / 3
GaussianOf(distance, sigma) ==
    Exp(Quot(Neg(Squared(distance)), Times(Times(2 * Scale, sigma), sigma)))

\* gaussianFalloff
GaussianFalloff(distance, radius) ==
    GaussianOf(distance, Quot(radius, 3 * Scale))

\* px of calculateBrushDistance: the offset turned by -rotation
RotatedX(dx, dz, rotation) ==
    IF rotation = 0 THEN dx
    ELSE Mul(dx, Cos(-rotation)) - Mul(dz, Sin(-rotation))

\* pz of calculateBrushDistance
RotatedZ(dx, dz, rotation) ==
    IF rotation = 0 THEN dz
    ELSE Mul(dx, Sin(-rotation)) + Mul(dz, Cos(-rotation))

\* Math.sqrt(px * px + pz * pz)
Hypot(px, pz) ==
    Sqrt(Mul(px, px) + Mul(pz, pz))

\* starAngle of calculateBrushDistance: (angle + Math.PI) / (2 * Math.PI) * 5
StarAngle(angle) ==
    Times(Quot(Plus(angle, Pi), 2 * Pi), 5 * Scale)

\* starRadius of calculateBrushDistance:
\* radius * (0.5 + 0.5 * Math.cos(starAngle * Math.PI * 2))
StarRadius(radius, starAngle) ==
    Times(radius, Plus(Scale \div 2, Times(Scale \div 2, CosPi(Times(starAngle, 2 * Scale)))))

\* the switch of calculateBrushDistance on the turned offset
ShapeDistance(px, pz, shape, radius, aspectRatio) ==
    CASE shape = "square" -> Quot(Max2(Abs(px), Abs(pz)), radius)
      [] shape = "diamond" -> Quot(Abs(px) + Abs(pz), radius)
      [] shape = "star" ->
             Quot(Hypot(px, pz), StarRadius(radius, StarAngle(Atan2(pz, px))))
      [] shape = "line" -> Quot(Abs(pz), Times(radius, Scale \div 10))
      [] shape = "ellipse" ->
             Root(Plus(Squared(Quot(px, Times(radius, MaxOf(Scale, aspectRatio)))),
                       Squared(Quot(pz, Times(radius,
                                              MaxOf(Scale, Quot(Scale, aspectRatio)))))))
      [] OTHER -> Quot(Hypot(px, pz), radius)

\* calculateBrushDistance
CalculateBrushDistance(dx, dz, shape, radius, aspectRatio, rotation) ==
    ShapeDistance(RotatedX(dx, dz, rotation), RotatedZ(dx, dz, rotation),
                  shape, radius, aspectRatio)

\* isPointInBrush
IsPointInBrush(dx, dz, shape, radius, aspectRatio, rotation) ==
    Leq(CalculateBrushDistance(dx, dz, shape, radius, aspectRatio, rotation), Scale)

\* the brush distance of cell index for a stroke at (x, z)
BrushDistanceAt(index, x, z, cfg) ==
    CalculateBrushDistance(VertexCoord(ColOf(index)) - x,
                           VertexCoord(RowOf(index)) - z,
                           cfg.shape, cfg.radius, cfg.aspectRatio, cfg.rotation)

\* the region cells with distance <= 1.0
Footprint(x, z, cfg) ==
    {i \in RegionIndices(x, z, cfg.radius) :
        Leq(BrushDistanceAt(i, x, z, cfg), Scale)}

\* the region cells that "if (distance > 1.0) continue" does not skip: those
\* of the footprint and those whose distance is NaN
Unskipped(x, z, cfg) ==
    {i \in RegionIndices(x, z, cfg.radius) :
        ~Gt(BrushDistanceAt(i, x, z, cfg), Scale)}

\* the falloff of the normalised distance, not multiplied by the radius
BrushFactorOfDistance(distance, radius, strength) ==
    Times(CosineFalloff(distance, radius), strength)

\* cosineFalloff(distance * config.radius, config.radius) * strength
BrushFactor(distance, radius, strength) ==
    Times(CosineFalloff(Times(distance, radius), radius), strength)

\* applyRaiseBrush: changes
RaiseChanges(hm, x, z, cfg) ==
    [i \in Footprint(x, z, cfg) |->
        Plus(hm[i], BrushFactor(BrushDistanceAt(i, x, z, cfg), cfg.radius,
                                cfg.strength))]

\* applyLowerBrush: changes
LowerChanges(hm, x, z, cfg) ==
    [i \in Footprint(x, z, cfg) |->
        Minus(hm[i], BrushFactor(BrushDistanceAt(i, x, z, cfg), cfg.radius,
                                 cfg.strength))]

\* nDist of applySmoothBrush and applyErosionBrush for every pair of cells:
\* the distance between their vertices
VertexDistances ==
    [i \in Cells |->
        [j \in Cells |-> Hypot(VertexCoord(ColOf(j)) - VertexCoord(ColOf(i)),
                               VertexCoord(RowOf(j)) - VertexCoord(RowOf(i)))]]

\* the distance between the vertices of two cells
VertexDistance(i, j) ==
    VertexDistances[i][j]

\* the weight of a cell at nDist in the average of the smooth brush; a cell
\* beyond neighborRadius adds nothing
SmoothWeight(nDist, neighborRadius) ==
    IF Leq(nDist, neighborRadius) THEN GaussianFalloff(nDist, neighborRadius)
    ELSE 0

\* sum of applySmoothBrush over the region cells 0 .. j
RECURSIVE SmoothSum(_, _, _, _, _)
SmoothSum(hm, region, i, neighborRadius, j) ==
    IF j < 0 THEN 0
    ELSE Plus(SmoothSum(hm, region, i, neighborRadius, j - 1),
              IF j \in region
              THEN Times(hm[j], SmoothWeight(VertexDistance(i, j), neighborRadius))
              ELSE 0)

\* count of applySmoothBrush over the region cells 0 .. j
RECURSIVE SmoothCount(_, _, _, _)
SmoothCount(region, i, neighborRadius, j) ==
    IF j < 0 THEN 0
    ELSE Plus(SmoothCount(region, i, neighborRadius, j - 1),
              IF j \in region
              THEN SmoothWeight(VertexDistance(i, j), neighborRadius)
              ELSE 0)

\* avgHeight of applySmoothBrush for cell i
SmoothAverage(hm, region, i, neighborRadius) ==
    Quot(SmoothSum(hm, region, i, neighborRadius, CellCount - 1),
         SmoothCount(region, i, neighborRadius, CellCount - 1))

\* a height overshooting its goal by the whole step
BlendedTwice(height, goal, factor) ==
    Plus(height, Times(Times(Minus(goal, height), factor), 2 * Scale))

\* heights[i] + (goal - heights[i]) * factor
Blended(height, goal, factor) ==
    Plus(height, Times(Minus(goal, height), factor))

\* the cells applySmoothBrush changes: those of the footprint with count > 0
SmoothedCells(region, x, z, cfg) ==
    {i \in Unskipped(x, z, cfg) :
        Gt(SmoothCount(region, i, Times(cfg.radius, (3 * Scale) \div 10),
                       CellCount - 1), 0)}

\* changes that blend towards the weighted sum, not divided by the weights
SmoothChangesTowardSum(hm, x, z, cfg) ==
    [i \in SmoothedCells(RegionIndices(x, z, cfg.radius), x, z, cfg) |->
        Blended(hm[i],
                SmoothSum(hm, RegionIndices(x, z, cfg.radius), i,
                          Times(cfg.radius, (3 * Scale) \div 10), CellCount - 1),
                BrushFactor(BrushDistanceAt(i, x, z, cfg), cfg.radius,
                            cfg.strength))]

\* a smooth stroke that writes at once visits cell j: the heights prev with
\* cell j blended with the average of the heights prev
SmoothedAtOnce(prev, x, z, cfg, j) ==
    IF j \in SmoothedCells(RegionIndices(x, z, cfg.radius), x, z, cfg)
    THEN [prev EXCEPT ![j] =
             Blended(prev[j],
                     SmoothAverage(prev, RegionIndices(x, z, cfg.radius), j,
                                   Times(cfg.radius, (3 * Scale) \div 10)),
                     BrushFactor(BrushDistanceAt(j, x, z, cfg), cfg.radius,
                                 cfg.strength))]
    ELSE prev

\* the heights after a smooth stroke has visited the cells 0 .. j, each cell
\* written at once and read by the cells after it
RECURSIVE SmoothedInPlace(_, _, _, _, _)
SmoothedInPlace(hm, x, z, cfg, j) ==
    IF j < 0 THEN hm
    ELSE SmoothedAtOnce(SmoothedInPlace(hm, x, z, cfg, j - 1), x, z, cfg, j)

\* changes of a smooth stroke that writes each height at once
SmoothChangesInPlace(hm, x, z, cfg) ==
    [i \in SmoothedCells(RegionIndices(x, z, cfg.radius), x, z, cfg) |->
        SmoothedInPlace(hm, x, z, cfg, CellCount - 1)[i]]

\* applySmoothBrush: changes
SmoothChanges(hm, x, z, cfg) ==
    [i \in SmoothedCells(RegionIndices(x, z, cfg.radius), x, z, cfg) |->
        Blended(hm[i],
                SmoothAverage(hm, RegionIndices(x, z, cfg.radius), i,
                              Times(cfg.radius, (3 * Scale) \div 10)),
                BrushFactor(BrushDistanceAt(i, x, z, cfg), cfg.radius,
                            cfg.strength))]

\* the region cells within centerRadius = 0.2 * radius of the brush centre
CenterCells(x, z, radius) ==
    {i \in RegionIndices(x, z, radius) :
        Leq(Hypot(VertexCoord(ColOf(i)) - x, VertexCoord(RowOf(i)) - z),
            Times(radius, Scale \div 5))}

\* the sum of the heights of the cells of a set among 0 .. j
RECURSIVE SumOver(_, _, _)
SumOver(hm, cells, j) ==
    IF j < 0 THEN 0
    ELSE Plus(SumOver(hm, cells, j - 1), IF j \in cells THEN hm[j] ELSE 0)

\* targetHeight from the centre cells, with the mean of all heights when
\* there is no centre cell
TargetOfAll(hm, center) ==
    IF Cardinality(center) > 0
    THEN Quot(SumOver(hm, center, CellCount - 1), Cardinality(center) * Scale)
    ELSE Quot(SumOver(hm, Cells, CellCount - 1), CellCount * Scale)

\* targetHeight of applyFlattenBrush from the centre cells
TargetOf(hm, center) ==
    IF Cardinality(center) > 0
    THEN Quot(SumOver(hm, center, CellCount - 1), Cardinality(center) * Scale)
    ELSE 0

\* targetHeight of applyFlattenBrush
TargetHeight(hm, x, z, cfg) ==
    TargetOf(hm, CenterCells(x, z, cfg.radius))

\* applyFlattenBrush: changes towards targetHeight
FlattenTo(hm, x, z, cfg, targetHeight) ==
    [i \in Unskipped(x, z, cfg) |->
        Blended(hm[i], targetHeight,
                BrushFactor(BrushDistanceAt(i, x, z, cfg), cfg.radius,
                            cfg.strength))]

\* applyFlattenBrush: changes
FlattenChanges(hm, x, z, cfg) ==
    FlattenTo(hm, x, z, cfg, TargetHeight(hm, x, z, cfg))

\* the slope of applyErosionBrush from a cell to a region cell at nDist that
\* is lower by drop; a cell beyond neighborRadius, or the cell itself, counts
\* as no slope
NeighborSlope(drop, nDist, neighborRadius) ==
    IF Leq(nDist, neighborRadius) /\ nDist > 0 THEN Quot(drop, nDist) ELSE 0

\* the slopes of applyErosionBrush from cell i to the other region cells
NeighborSlopes(currentHeights, region, i, neighborRadius) ==
    {NeighborSlope(Minus(currentHeights[i], currentHeights[j]),
                   VertexDistance(i, j), neighborRadius) : j \in region \ {i}}

\* the largest number of a set
LargestOf(slopes) ==
    CHOOSE m \in slopes : \A s \in slopes : s <= m

\* maxSlope of applyErosionBrush for cell i: it starts at 0 and
\* "if (slope > maxSlope) maxSlope = slope" replaces it by every greater
\* slope; the comparison is false for NaN
MaxSlope(currentHeights, region, i, neighborRadius) ==
    LargestOf({0} \cup {s \in NeighborSlopes(currentHeights, region, i,
                                             neighborRadius) : ~IsNaN(s)})

\* newHeights[i] of one pass of applyErosionBrush
Worn(height, maxSlope, factor) ==
    IF Gt(maxSlope, Scale \div 10) THEN Minus(height, Times(maxSlope, factor))
    ELSE height

\* one pass of applyErosionBrush over the cells 0 .. j: newHeights, a copy of
\* currentHeights with the footprint cells worn
RECURSIVE ErosionPass(_, _, _, _, _, _, _)
ErosionPass(currentHeights, region, x, z, cfg, erosionStrength, j) ==
    IF j < 0 THEN currentHeights
    ELSE IF j \in region /\ ~Gt(BrushDistanceAt(j, x, z, cfg), Scale)
    THEN [ErosionPass(currentHeights, region, x, z, cfg, erosionStrength, j - 1)
             EXCEPT ![j] =
                 Worn(currentHeights[j],
                      MaxSlope(currentHeights, region, j,
                               Times(cfg.radius, (15 * Scale) \div 100)),
                      BrushFactor(BrushDistanceAt(j, x, z, cfg), cfg.radius,
                                  erosionStrength))]
    ELSE ErosionPass(currentHeights, region, x, z, cfg, erosionStrength, j - 1)

\* currentHeights of applyErosionBrush after the given number of passes
RECURSIVE ErosionPasses(_, _, _, _, _, _)
ErosionPasses(hm, region, x, z, cfg, passes) ==
    IF passes = 0 THEN hm
    ELSE ErosionPass(ErosionPasses(hm, region, x, z, cfg, passes - 1),
                     region, x, z, cfg,
                     Times(cfg.strength, (3 * Scale) \div 10), CellCount - 1)

\* the changes of applyErosionBrush from the heights after the last pass
ErosionChangesOf(currentHeights, x, z, cfg) ==
    [i \in Footprint(x, z, cfg) |-> currentHeights[i]]

\* applyErosionBrush without an erosion system: changes
ErosionChanges(hm, x, z, cfg) ==
    ErosionChangesOf(
        ErosionPasses(hm, RegionIndices(x, z, cfg.radius), x, z, cfg, 3),
        x, z, cfg)

\* no changes
NoChanges ==
    [i \in {} |-> 0]

\* applyBrush without an erosion system: the changes handed to
\* applyHeightmapChanges
BrushChanges(hm, x, z, cfg) ==
    CASE cfg.type = "raise" -> RaiseChanges(hm, x, z, cfg)
      [] cfg.type = "lower" -> LowerChanges(hm, x, z, cfg)
      [] cfg.type = "smooth" -> SmoothChanges(hm, x, z, cfg)
      [] cfg.type = "flatten" -> FlattenChanges(hm, x, z, cfg)
      [] cfg.type = "erosion" -> ErosionChanges(hm, x, z, cfg)
      [] OTHER -> NoChanges

\* ------------------------------------------------------------------------
\* ErosionSystem (drop simulator): configuration
\* ------------------------------------------------------------------------

\* defaultErosionConfig of the drop simulator
DefaultDropConfig ==
    [ enabled          |-> FALSE,
      intensity        |-> Scale \div 2,
      waterAmount      |-> (3 * Scale) \div 10,
      evaporationRate  |-> Scale \div 100,
      sedimentCapacity |-> Scale \div 10,
      erosionRate      |-> (3 * Scale) \div 10,
      depositionRate   |-> (3 * Scale) \div 10,
      minSlope         |-> Scale \div 100,
      gravity          |-> (98 * Scale) \div 10,
      iterations       |-> 10 * Scale,
      dropRadius       |-> Scale ]

VARIABLES
    dropConfig,         \* this.config of the drop simulator
    timeAccumulator     \* this.timeAccumulator

dropVars ==
    <<dropConfig, timeAccumulator>>

\* ------------------------------------------------------------------------
\* ErosionSystem (drop simulator): one water drop
\* ------------------------------------------------------------------------

\* maxSteps of simulateDrop
MaxSteps ==
    100

\* dt of simulateDrop
Dt ==
    Scale \div 10

\* friction of simulateDrop
Friction ==
    (9 * Scale) \div 10

\* this.frameInterval
FrameInterval ==
    (16 * Scale) \div 1000

\* Math.random(): the k-th number of the stream rnd, which repeats
RandomAt(rnd, k) ==
    rnd[(k % Len(rnd)) + 1]

RECURSIVE IntSqrtSearch(_, _, _)
IntSqrtSearch(n, lo, hi) ==
    IF lo >= hi THEN lo
    ELSE IF ((lo + hi + 1) \div 2) * ((lo + hi + 1) \div 2) <= n
    THEN IntSqrtSearch(n, (lo + hi + 1) \div 2, hi)
    ELSE IntSqrtSearch(n, lo, (lo + hi + 1) \div 2 - 1)

\* Math.sqrt(px * px + pz * pz): of the exact squares where they fit the
\* integers of the model, of the fixed-point squares otherwise
Length(px, pz) ==
    IF Abs(px) < 3 * Scale /\ Abs(pz) < 3 * Scale
    THEN IntSqrtSearch(px * px + pz * pz, 0, 46340)
    ELSE Hypot(px, pz)

\* getVertexIndex: i and j are clamped, so that null is never returned
GetVertexIndex(x, z) ==
    HeightIndexAt(x, z)

\* getNeighbors of the drop simulator, in the order of the pushes
DropNeighbors(index) ==
    (IF RowOf(index) > 0 THEN <<index - (Segments + 1)>> ELSE <<>>)
    \o (IF RowOf(index) < Segments THEN <<index + (Segments + 1)>> ELSE <<>>)
    \o (IF ColOf(index) > 0 THEN <<index - 1>> ELSE <<>>)
    \o (IF ColOf(index) < Segments THEN <<index + 1>> ELSE <<>>)

\* the direction towards a neighbour whose gradient is greater than
\* maxGradient, the steepest so far otherwise
SteeperDescent(steepest, gradient, dx, dz, distance) ==
    IF gradient > steepest.maxGradient
    THEN [maxGradient |-> gradient, dirX |-> Div(dx, distance),
          dirZ |-> Div(dz, distance)]
    ELSE steepest

\* the neighbour loop of calculateFlowDirection for one neighbour at the
\* given distance
DescentTo(steepest, hm, index, neighborIdx, distance) ==
    IF distance > 0
    THEN SteeperDescent(steepest, Div(hm[index] - hm[neighborIdx], distance),
                        VertexCoord(ColOf(neighborIdx)) - VertexCoord(ColOf(index)),
                        VertexCoord(RowOf(neighborIdx)) - VertexCoord(RowOf(index)),
                        distance)
    ELSE steepest

\* the neighbour loop of calculateFlowDirection over the first n neighbours
RECURSIVE SteepestDescent(_, _, _, _)
SteepestDescent(hm, index, neighbors, n) ==
    IF n = 0 THEN [maxGradient |-> 0, dirX |-> 0, dirZ |-> 0]
    ELSE DescentTo(SteepestDescent(hm, index, neighbors, n - 1), hm, index,
                   neighbors[n], VertexDistance(index, neighbors[n]))

\* the random direction of calculateFlowDirection from its angle
RandomDescent(angle, k) ==
    [maxGradient |-> Scale \div 100,
     dirX |-> Mul(Cos(angle), Scale \div 100),
     dirZ |-> Mul(Sin(angle), Scale \div 100),
     k |-> k + 1]

\* calculateFlowDirection before the direction is normalized; k counts the
\* random numbers drawn
Descent(steepest, rnd, k) ==
    IF steepest.maxGradient <= 0
    THEN RandomDescent(Mul(Mul(RandomAt(rnd, k), Pi), 2 * Scale), k)
    ELSE [maxGradient |-> steepest.maxGradient, dirX |-> steepest.dirX,
          dirZ |-> steepest.dirZ, k |-> k]

\* "Normalize direction" of calculateFlowDirection
Normalized(descent, dirLength) ==
    [dirX |-> IF dirLength > 0 THEN Div(descent.dirX, dirLength) ELSE descent.dirX,
     dirZ |-> IF dirLength > 0 THEN Div(descent.dirZ, dirLength) ELSE descent.dirZ,
     magnitude |-> Max2(0, descent.maxGradient),
     k |-> descent.k]

\* calculateFlowDirection from the direction found
FlowOf(descent) ==
    Normalized(descent, Length(descent.dirX, descent.dirZ))

\* calculateFlowDirection
CalculateFlowDirection(hm, index, rnd, k) ==
    FlowOf(Descent(SteepestDescent(hm, index, DropNeighbors(index),
                                   Len(DropNeighbors(index))), rnd, k))

\* the drop of simulateDrop at its start, with the heights it works on, the
\* count k of the random numbers drawn and whether a statement of
\* simulateDrop has written an element of terrain.heightmap
NewDrop(cfg, world, startX, startZ) ==
    [x |-> startX, z |-> startZ, velocityX |-> 0, velocityZ |-> 0,
     water |-> cfg.waterAmount, sediment |-> 0, done |-> FALSE,
     hm |-> world.hm, k |-> world.k, wrote |-> world.wrote]

\* erosionAmount of simulateDrop
ErosionAmount(cfg, drop, heightDiff, capacity) ==
    Min2(Mul(Mul(Mul(capacity - drop.sediment, cfg.erosionRate), Dt), drop.water),
         Mul(heightDiff, (3 * Scale) \div 10))

\* "Erode from current position"
ErodedBy(cfg, drop, idx, erosionAmount) ==
    IF erosionAmount > Scale \div 10000
    THEN [drop EXCEPT !.hm[idx] = @ - Mul(erosionAmount, cfg.intensity),
                      !.sediment = @ + erosionAmount,
                      !.wrote = TRUE]
    ELSE drop

\* the erosion of one step of simulateDrop
DropEroded(cfg, drop, idx, heightDiff, capacity) ==
    IF drop.sediment < capacity /\ heightDiff > cfg.minSlope
    THEN ErodedBy(cfg, drop, idx, ErosionAmount(cfg, drop, heightDiff, capacity))
    ELSE drop

\* "Deposit at current position"
DepositedBy(cfg, drop, idx, depositAmount) ==
    IF depositAmount > Scale \div 10000
    THEN [drop EXCEPT !.hm[idx] = @ + Mul(depositAmount, cfg.intensity),
                      !.sediment = @ - depositAmount,
                      !.wrote = TRUE]
    ELSE drop

\* the deposition of one step of simulateDrop
DropDeposited(cfg, drop, idx, capacity) ==
    IF drop.sediment > capacity
    THEN DepositedBy(cfg, drop, idx,
                     Mul(Mul(Mul(drop.sediment - capacity, cfg.depositionRate), Dt),
                         drop.water))
    ELSE drop

\* the two breaks at the end of a step of simulateDrop
DropStopped(drop, heightDiff, speed) ==
    IF drop.water < Scale \div 1000
       \/ (speed < Scale \div 1000 /\ Abs(heightDiff) < Scale \div 100)
    THEN [drop EXCEPT !.done = TRUE]
    ELSE drop

\* "Evaporation" and the breaks after it
DropDried(cfg, drop, heightDiff, speed) ==
    DropStopped([drop EXCEPT !.water = Mul(@, Scale - Mul(cfg.evaporationRate, Dt))],
                heightDiff, speed)

\* a step of simulateDrop from the sediment capacity on
DropSettled(cfg, drop, idx, heightDiff, speed, capacity) ==
    DropDried(cfg,
              DropDeposited(cfg, DropEroded(cfg, drop, idx, heightDiff, capacity),
                            idx, capacity),
              heightDiff, speed)

\* a step of simulateDrop on the terrain, from the new position on
DropCarried(cfg, drop, idx, heightDiff, speed) ==
    DropSettled(cfg, drop, idx, heightDiff, speed,
                Mul(Mul(cfg.sedimentCapacity, speed + Scale \div 10),
                    Max2(0, heightDiff + Scale \div 100)))

\* a step of simulateDrop after the move: "Check bounds" and what follows
DropLanded(cfg, drop, idx) ==
    IF Abs(drop.x) > TerrainSize \div 2 \/ Abs(drop.z) > TerrainSize \div 2
    THEN [drop EXCEPT !.done = TRUE]
    ELSE DropCarried(cfg, drop, idx,
                     drop.hm[idx] - drop.hm[GetVertexIndex(drop.x, drop.z)],
                     Length(drop.velocityX, drop.velocityZ))

\* "Move drop"
DropMoved(drop, velocityX, velocityZ, k) ==
    [drop EXCEPT !.velocityX = velocityX, !.velocityZ = velocityZ,
                 !.x = @ + Mul(velocityX, Dt), !.z = @ + Mul(velocityZ, Dt),
                 !.k = k]

\* the velocity of the drop after the acceleration and the friction
Slowed(velocity, dir, acceleration) ==
    Mul(velocity + Mul(Mul(dir, acceleration), Dt), Friction)

\* a step of simulateDrop from the flow direction on
DropFlowing(cfg, drop, idx, flow) ==
    DropLanded(cfg,
               DropMoved(drop,
                         Slowed(drop.velocityX, flow.dirX,
                                Mul(cfg.gravity, flow.magnitude)),
                         Slowed(drop.velocityZ, flow.dirZ,
                                Mul(cfg.gravity, flow.magnitude)),
                         flow.k),
               idx)

\* one turn of the loop of simulateDrop; a drop that has left the loop stays
\* as it is
DropStep(cfg, rnd, drop) ==
    IF drop.done THEN drop
    ELSE DropFlowing(cfg, drop, GetVertexIndex(drop.x, drop.z),
                     CalculateFlowDirection(drop.hm, GetVertexIndex(drop.x, drop.z),
                                            rnd, drop.k))

\* n turns of the loop of simulateDrop: the first half of them, then the rest
RECURSIVE DropSteps(_, _, _, _)
DropSteps(cfg, rnd, drop, n) ==
    IF drop.done THEN drop
    ELSE IF n = 1 THEN DropStep(cfg, rnd, drop)
    ELSE DropSteps(cfg, rnd, DropSteps(cfg, rnd, drop, n \div 2), n - n \div 2)

\* what a drop leaves behind
AfterDrop(drop) ==
    [hm |-> drop.hm, k |-> drop.k, wrote |-> drop.wrote]

\* simulateDrop
SimulateDrop(cfg, rnd, world, startX, startZ) ==
    AfterDrop(DropSteps(cfg, rnd, NewDrop(cfg, world, startX, startZ), MaxSteps))

\* ------------------------------------------------------------------------
\* ErosionSystem (drop simulator): rain and the erosion brush
\* ------------------------------------------------------------------------

\* the heights before the first drop of an operation
WorldOf(hm) ==
    [hm |-> hm, k |-> 0, wrote |-> FALSE]

\* (Math.random() - 0.5) * size * 0.8
RainCoord(random) ==
    Mul(Mul(random - Scale \div 2, TerrainSize), (8 * Scale) \div 10)

\* one turn of the loop of addRain, from the position of the drop on: the
\* third random number is drawn for a height that is not above 0
RainAt(cfg, rnd, world, x, z) ==
    IF world.hm[GetVertexIndex(x, z)] > 0
    THEN SimulateDrop(cfg, rnd, world, x, z)
    ELSE IF RandomAt(rnd, world.k) > (7 * Scale) \div 10
    THEN SimulateDrop(cfg, rnd, [world EXCEPT !.k = @ + 1], x, z)
    ELSE [world EXCEPT !.k = @ + 1]

\* one turn of the loop of addRain
RainDrop(cfg, rnd, world) ==
    RainAt(cfg, rnd, [world EXCEPT !.k = @ + 2],
           RainCoord(RandomAt(rnd, world.k)), RainCoord(RandomAt(rnd, world.k + 1)))

\* n turns of the loop of addRain
RECURSIVE Rain(_, _, _, _)
Rain(cfg, rnd, world, n) ==
    IF n = 0 THEN world
    ELSE RainDrop(cfg, rnd, Rain(cfg, rnd, world, n - 1))

\* addRain
AddRain(cfg, rnd, hm) ==
    Rain(cfg, rnd, WorldOf(hm), Floor(cfg.iterations))

\* one turn of the loop of applyErosionAt, from the position of the drop on
ErosionDropAt(cfg, rnd, world, dropX, dropZ) ==
    IF Abs(dropX) < TerrainSize \div 2 /\ Abs(dropZ) < TerrainSize \div 2
    THEN SimulateDrop(cfg, rnd, world, dropX, dropZ)
    ELSE world

\* one turn of the loop of applyErosionAt, from angle and distance on
ErosionDropTowards(cfg, rnd, world, x, z, angle, distance) ==
    ErosionDropAt(cfg, rnd, world, x + Mul(Cos(angle), distance),
                  z + Mul(Sin(angle), distance))

\* one turn of the loop of applyErosionAt
ErosionDrop(cfg, rnd, world, x, z, radius) ==
    ErosionDropTowards(cfg, rnd, [world EXCEPT !.k = @ + 2], x, z,
                       Mul(Mul(RandomAt(rnd, world.k), Pi), 2 * Scale),
                       Mul(RandomAt(rnd, world.k + 1), radius))

\* n turns of the loop of applyErosionAt
RECURSIVE ErosionDrops(_, _, _, _, _, _, _)
ErosionDrops(cfg, rnd, world, x, z, radius, n) ==
    IF n = 0 THEN world
    ELSE ErosionDrop(cfg, rnd, ErosionDrops(cfg, rnd, world, x, z, radius, n - 1),
                     x, z, radius)

\* the drops of applyErosionAt
ErosionAt(cfg, rnd, hm, x, z, radius, strength) ==
    ErosionDrops(cfg, rnd, WorldOf(hm), x, z, radius,
                 Floor(Mul(strength, 20 * Scale)))

\* ------------------------------------------------------------------------
\* The call of step() in progress
\* ------------------------------------------------------------------------

VARIABLES
    stepFrame   \* the local variables of a running step(): the phase it has
                \* completed (pc), the buffers newWaterMap, newSedimentMap
                \* and newFlowDirectionMap, heightChanges, and what
                \* terrain.heightmap and this.flowMap held when step() was
                \* called

\* no step() is running
NoFrame ==
    [pc |-> "idle"]

\* ------------------------------------------------------------------------
\* History of the behaviour
\* ------------------------------------------------------------------------

VARIABLES
    lastOp,     \* the last operation performed and its arguments; for a
                \* step, the transports of its water flow (moves) and the
                \* water after the flow, before the evaporation (routedWater)
    opCount,    \* the number of operations performed so far
    writers     \* the functions whose statements wrote elements of
                \* terrain.heightmap during the last operation

historyVars ==
    <<lastOp, opCount, writers>>

\* ------------------------------------------------------------------------
\* Terrains and configurations of the behaviours
\* ------------------------------------------------------------------------

\* Math.max(minHeight, Math.min(maxHeight, h))
ClampHeight(h) ==
    Max2(MinHeight, Min2(MaxHeight, h))

\* heights of a 3 x 3 patch with a crest, a pit and a saddle, in whole units
RidgePatch ==
    <<15, 5, 14, -5, 1, 0, 15, 0, -4>>

\* the terrains a behaviour starts from: a plain at height 2, a ramp
\* (height = row), a plane rising 3 per row and per column from minHeight,
\* and a ridged terrain (RidgePatch, repeated)
Terrains ==
    { [i \in Cells |-> 2 * Scale],
      [i \in Cells |-> RowOf(i) * Scale],
      [i \in Cells |-> ClampHeight(MinHeight + 3 * Scale * RowOf(i)
                                   + 3 * Scale * ColOf(i))],
      [i \in Cells |-> RidgePatch[(RowOf(i) % 3) * 3 + (ColOf(i) % 3) + 1] * Scale] }

\* the partial configurations given to the constructor and to updateConfig
ConfigPresets ==
    { \* the defaults
      [ rainfallRate |-> Scale \div 100, erosionRate |-> (3 * Scale) \div 10,
        depositionRate |-> (3 * Scale) \div 10, evaporationRate |-> Scale \div 100,
        maxErosion |-> Scale \div 10, capacityConstant |-> 10 * Scale,
        maxSedimentCapacity |-> Scale, flowInertia |-> (3 * Scale) \div 10,
        minWaterForFlow |-> Scale \div 10000, debugAggressive |-> FALSE ],
      \* the defaults with debugAggressive
      [ rainfallRate |-> Scale \div 100, erosionRate |-> (3 * Scale) \div 10,
        depositionRate |-> (3 * Scale) \div 10, evaporationRate |-> Scale \div 100,
        maxErosion |-> Scale \div 10, capacityConstant |-> 10 * Scale,
        maxSedimentCapacity |-> Scale, flowInertia |-> (3 * Scale) \div 10,
        minWaterForFlow |-> Scale \div 10000, debugAggressive |-> TRUE ],
      \* every slider of the panel at its maximum, with debugAggressive
      [ rainfallRate |-> Scale \div 10, erosionRate |-> Scale,
        depositionRate |-> Scale, evaporationRate |-> Scale \div 10,
        maxErosion |-> Scale, capacityConstant |-> 50 * Scale,
        maxSedimentCapacity |-> 5 * Scale, flowInertia |-> Scale,
        minWaterForFlow |-> Scale \div 10000, debugAggressive |-> TRUE ],
      \* flowInertia = 2, with debugAggressive
      [ rainfallRate |-> Scale \div 100, erosionRate |-> (3 * Scale) \div 10,
        depositionRate |-> (3 * Scale) \div 10, evaporationRate |-> Scale \div 100,
        maxErosion |-> Scale \div 10, capacityConstant |-> 10 * Scale,
        maxSedimentCapacity |-> Scale, flowInertia |-> 2 * Scale,
        minWaterForFlow |-> Scale \div 10000, debugAggressive |-> TRUE ],
      \* no rain and no water threshold
      [ rainfallRate |-> 0, erosionRate |-> (3 * Scale) \div 10,
        depositionRate |-> (3 * Scale) \div 10, evaporationRate |-> Scale \div 100,
        maxErosion |-> Scale \div 10, capacityConstant |-> 10 * Scale,
        maxSedimentCapacity |-> Scale, flowInertia |-> (3 * Scale) \div 10,
        minWaterForFlow |-> 0, debugAggressive |-> FALSE ],
      \* the defaults without rain
      [ rainfallRate |-> 0, erosionRate |-> (3 * Scale) \div 10,
        depositionRate |-> (3 * Scale) \div 10, evaporationRate |-> Scale \div 100,
        maxErosion |-> Scale \div 10, capacityConstant |-> 10 * Scale,
        maxSedimentCapacity |-> Scale, flowInertia |-> (3 * Scale) \div 10,
        minWaterForFlow |-> Scale \div 10000, debugAggressive |-> FALSE ] }

\* a BrushConfig
Brush(type, shape, radius, strength, aspectRatio, rotation) ==
    [type |-> type, shape |-> shape, radius |-> radius, strength |-> strength,
     aspectRatio |-> aspectRatio, rotation |-> rotation]

\* the brush configurations of the strokes
BrushConfigs ==
    { Brush("raise", "circle", Scale, Scale \div 2, Scale, 0),
      Brush("raise", "circle", (15 * Scale) \div 10, Scale, Scale, 0),
      Brush("lower", "square", Scale, Scale \div 2, Scale, 0),
      Brush("lower", "diamond", (15 * Scale) \div 10, Scale, Scale, Pi \div 2),
      Brush("raise", "line", 5 * Scale, Scale \div 2, Scale, 0),
      Brush("raise", "star", (15 * Scale) \div 10, Scale \div 2, Scale, 0),
      Brush("raise", "ellipse", (6 * Scale) \div 10, Scale \div 2, 4 * Scale, 0),
      Brush("raise", "ellipse", Scale, Scale \div 2, Scale \div 2, Pi \div 2),
      Brush("smooth", "circle", 4 * Scale, Scale \div 2, Scale, 0),
      Brush("smooth", "square", 4 * Scale, Scale, Scale, 0),
      Brush("flatten", "circle", 5 * Scale, Scale, Scale, 0),
      Brush("flatten", "circle", (15 * Scale) \div 10, Scale, Scale, 0),
      Brush("flatten", "line", 5 * Scale, Scale, Scale, 0),
      Brush("flatten", "circle", (4 * Scale) \div 10, Scale, Scale, 0),
      Brush("erosion", "circle", 7 * Scale, Scale, Scale, 0),
      Brush("erosion", "diamond", Scale, Scale \div 2, Scale, 0),
      \* radius <= 0 or aspectRatio <= 0
      Brush("raise", "circle", 0, Scale \div 2, Scale, 0),
      Brush("flatten", "circle", 0, Scale, Scale, 0),
      Brush("lower", "circle", -(Scale \div 2), Scale \div 2, Scale, 0),
      Brush("raise", "ellipse", Scale, Scale \div 2, 0, 0),
      Brush("flatten", "ellipse", Scale, Scale, -Scale, 0) }

\* where the strokes are applied: the centre of the terrain, a corner, and
\* a point off the vertices
BrushPositions ==
    { [x |-> 0, z |-> 0],
      [x |-> -(TerrainSize \div 2), z |-> TerrainSize \div 2],
      [x |-> (4 * Scale) \div 10, z |-> Scale \div 10] }

\* world coordinates getHeightAt is asked for, inside and outside the terrain
WorldCoords ==
    { -3 * Scale, -(TerrainSize \div 2), 0, (4 * Scale) \div 10,
      TerrainSize \div 2, (25 * Scale) \div 10 }

\* the configurations the panel gives to updateConfig of the drop simulator:
\* the defaults, the defaults enabled with two drops per frame, and every
\* rate at 1 with one drop per frame
DropConfigPresets ==
    { DefaultDropConfig,
      [DefaultDropConfig EXCEPT !.enabled = TRUE, !.iterations = 2 * Scale],
      [DefaultDropConfig EXCEPT !.enabled = TRUE, !.iterations = Scale,
                                !.intensity = Scale, !.waterAmount = Scale,
                                !.sedimentCapacity = Scale, !.erosionRate = Scale,
                                !.depositionRate = Scale] }

\* the values delta * timeScale of a frame
FrameTimes ==
    { Scale \div 100, (2 * Scale) \div 100 }

\* the numbers Math.random() returns, in the order of the calls; a stream
\* repeats when it is used up
RandomStreams ==
    { <<(3 * Scale) \div 4, Scale \div 4>>,
      <<(9 * Scale) \div 10, Scale \div 4, 0, Scale \div 2>> }

\* the erosion brush of the strokes with an erosion system: strength * 20 is
\* the number of drops
ErosionBrushConfigs ==
    { Brush("erosion", "circle", Scale, Scale \div 10, Scale, 0) }

\* ------------------------------------------------------------------------
\* Construction
\* ------------------------------------------------------------------------

\* new TerrainSystem(...) with a generated terrain, then
\* new ErosionSystem(terrain, partial) for the grid simulator and for the
\* drop simulator
Init ==
    /\ heightmap \in Terrains
    /\ positionsY = heightmap
    /\ textureData = heightmap
    /\ \E partial \in ConfigPresets : config = Merge(DefaultErosionConfig, partial)
    /\ waterMap = ZeroMap
    /\ sedimentMap = ZeroMap
    /\ flowMap = ZeroMap
    /\ flowDirectionMap = ZeroDirMap
    /\ heightDeltaMap = ZeroMap
    /\ cumulativeErosionMap = ZeroMap
    /\ persistentFlowMap = ZeroMap
    /\ \E partial \in DropConfigPresets :
           dropConfig = Merge(DefaultDropConfig, partial)
    /\ timeAccumulator = 0
    /\ lastOp = [op |-> "new"]
    /\ opCount = 0
    /\ stepFrame = NoFrame
    /\ writers = {}

\* ------------------------------------------------------------------------
\* ErosionSystem (grid simulator): operations
\* ------------------------------------------------------------------------

\* ErosionSystem.step
Step ==
    /\ opCount < MaxOps
    /\ \E r \in {StepResult(config, heightmap, waterMap, sedimentMap, flowMap,
                            flowDirectionMap)} :
           /\ r.fits
           /\ heightDeltaMap' = r.heightDeltaMap
           /\ cumulativeErosionMap' =
                  [i \in Cells |-> cumulativeErosionMap[i] + r.heightDeltaMap[i]]
           /\ flowMap' = r.flowMap
           /\ persistentFlowMap' =
                  [i \in Cells |-> PersistentFlow(persistentFlowMap[i], r.flowMap[i])]
           /\ IF DOMAIN r.heightChanges # {}
              THEN /\ heightmap' = ChangedHeightmap(heightmap, r.heightChanges)
                   /\ positionsY' = ChangedPositions(positionsY, r.heightChanges)
                   /\ textureData' = UpdatedTexture(heightmap')
                   /\ writers' = {"applyHeightmapChanges"}
              ELSE /\ UNCHANGED terrainVars
                   /\ writers' = {}
           /\ waterMap' = r.newWaterMap
           /\ sedimentMap' = r.newSedimentMap
           /\ flowDirectionMap' = r.newFlowDirectionMap
           /\ lastOp' = [op |-> "step", moves |-> r.moves,
                         routedWater |-> r.routedWater]
    /\ opCount' = opCount + 1
    /\ UNCHANGED <<stepFrame, config, dropVars>>

\* a reset of the water, sediment and flow maps only
ResetWaterSedimentFlow ==
    /\ opCount < MaxOps
    /\ waterMap' = [i \in DOMAIN waterMap |-> 0]
    /\ sedimentMap' = [i \in DOMAIN sedimentMap |-> 0]
    /\ flowMap' = [i \in DOMAIN flowMap |-> 0]
    /\ lastOp' = [op |-> "reset"]
    /\ opCount' = opCount + 1
    /\ writers' = {}
    /\ UNCHANGED <<stepFrame, terrainVars, config, flowDirectionMap, heightDeltaMap,
                   cumulativeErosionMap, persistentFlowMap, dropVars>>

\* ErosionSystem.reset
Reset ==
    /\ opCount < MaxOps
    /\ waterMap' = [i \in DOMAIN waterMap |-> 0]
    /\ sedimentMap' = [i \in DOMAIN sedimentMap |-> 0]
    /\ flowMap' = [i \in DOMAIN flowMap |-> 0]
    /\ flowDirectionMap' = [i \in DOMAIN flowDirectionMap |-> 0]
    /\ heightDeltaMap' = [i \in DOMAIN heightDeltaMap |-> 0]
    /\ cumulativeErosionMap' = [i \in DOMAIN cumulativeErosionMap |-> 0]
    /\ persistentFlowMap' = [i \in DOMAIN persistentFlowMap |-> 0]
    /\ lastOp' = [op |-> "reset"]
    /\ opCount' = opCount + 1
    /\ writers' = {}
    /\ UNCHANGED <<stepFrame, terrainVars, config, dropVars>>

\* ErosionSystem.updateConfig
UpdateConfig ==
    /\ \E partial \in ConfigPresets : config' = Merge(config, partial)
    /\ lastOp' = [op |-> "updateConfig"]
    /\ writers' = {}
    /\ UNCHANGED <<stepFrame, terrainVars, waterMap, sedimentMap, flowMap, flowDirectionMap,
                   heightDeltaMap, cumulativeErosionMap, persistentFlowMap, opCount,
                   dropVars>>

vars ==
    <<terrainVars, erosionVars, dropVars, historyVars, stepFrame>>

NextErosion ==
    \/ Step
    \/ Reset
    \/ UpdateConfig

\* the terrain with the grid simulator as constructed; the drop simulator
\* keeps its default configuration
InitErosion ==
    /\ Init
    /\ dropConfig = DefaultDropConfig

SpecErosion ==
    InitErosion /\ [][NextErosion]_vars

\* ------------------------------------------------------------------------
\* ErosionSystem.step, phase by phase
\* ------------------------------------------------------------------------

\* step() is called: the buffers are copied from the live maps,
\* heightChanges is empty, heightDeltaMap is cleared, and the rain falls on
\* newWaterMap
StepBegin ==
    /\ stepFrame = NoFrame
    /\ opCount < MaxOps
    /\ stepFrame' = [pc |-> "rained",
                     heightsAtCall |-> heightmap,
                     flowAtCall |-> flowMap,
                     newWaterMap |-> Rainfall(config, waterMap),
                     newSedimentMap |-> sedimentMap,
                     newFlowDirectionMap |-> flowDirectionMap,
                     heightChanges |-> NoChanges,
                     moves |-> {}]
    /\ heightDeltaMap' = ZeroMap
    /\ writers' = {}
    /\ UNCHANGED <<terrainVars, config, waterMap, sedimentMap, flowMap,
                   flowDirectionMap, cumulativeErosionMap, persistentFlowMap,
                   dropVars, lastOp, opCount>>

\* 2. the water flow, on the buffers and on this.flowMap
StepFlow ==
    /\ stepFrame.pc = "rained"
    /\ \E routed \in {FlowPhase(config, heightmap, flowDirectionMap,
                                [w |-> stepFrame.newWaterMap,
                                 s |-> stepFrame.newSedimentMap,
                                 fd |-> stepFrame.newFlowDirectionMap,
                                 fm |-> flowMap, out |-> 0, fits |-> TRUE,
                                 moves |-> {}], 0)} :
           /\ routed.fits
           /\ flowMap' = routed.fm
           /\ stepFrame' = [stepFrame EXCEPT !.pc = "routed",
                                             !.newWaterMap = routed.w,
                                             !.newSedimentMap = routed.s,
                                             !.newFlowDirectionMap = routed.fd,
                                             !.moves = routed.moves]
    /\ UNCHANGED <<terrainVars, config, waterMap, sedimentMap, flowDirectionMap,
                   heightDeltaMap, cumulativeErosionMap, persistentFlowMap,
                   dropVars, historyVars>>

\* the erosion and deposition phase that writes each new height to
\* terrain.heightmap as soon as it is computed
StepErodeInPlace ==
    /\ stepFrame.pc = "routed"
    /\ \E eroded \in {ErodePhase(config, heightmap,
                                 [w |-> stepFrame.newWaterMap,
                                  s |-> stepFrame.newSedimentMap, fm |-> flowMap],
                                 [s |-> stepFrame.newSedimentMap, delta |-> ZeroMap,
                                  heights |-> heightmap, changed |-> {}], 0)} :
           /\ heightDeltaMap' = eroded.delta
           /\ heightmap' = eroded.heights
           /\ stepFrame' = [stepFrame EXCEPT !.pc = "eroded",
                                             !.newSedimentMap = eroded.s]
    /\ UNCHANGED <<positionsY, textureData, config, waterMap, sedimentMap, flowMap,
                   flowDirectionMap, cumulativeErosionMap, persistentFlowMap,
                   dropVars, historyVars>>

\* 3. erosion and deposition, on newSedimentMap, heightChanges and
\* this.heightDeltaMap
StepErode ==
    /\ stepFrame.pc = "routed"
    /\ \E eroded \in {ErodePhase(config, heightmap,
                                 [w |-> stepFrame.newWaterMap,
                                  s |-> stepFrame.newSedimentMap, fm |-> flowMap],
                                 [s |-> stepFrame.newSedimentMap, delta |-> ZeroMap,
                                  heights |-> heightmap, changed |-> {}], 0)} :
           /\ heightDeltaMap' = eroded.delta
           /\ stepFrame' = [stepFrame EXCEPT
                              !.pc = "eroded",
                              !.newSedimentMap = eroded.s,
                              !.heightChanges =
                                  [i \in eroded.changed |-> eroded.heights[i]]]
    /\ UNCHANGED <<terrainVars, config, waterMap, sedimentMap, flowMap,
                   flowDirectionMap, cumulativeErosionMap, persistentFlowMap,
                   dropVars, historyVars>>

\* 4. evaporation, on newWaterMap
StepEvaporate ==
    /\ stepFrame.pc = "eroded"
    /\ stepFrame' = [stepFrame EXCEPT !.pc = "evaporated",
                                      !.newWaterMap = Evaporate(config, @)]
    /\ UNCHANGED <<terrainVars, erosionVars, dropVars, historyVars>>

\* 4.5. the bookkeeping: cumulativeErosionMap and persistentFlowMap
StepBookkeeping ==
    /\ stepFrame.pc = "evaporated"
    /\ cumulativeErosionMap' =
           [i \in Cells |-> cumulativeErosionMap[i] + heightDeltaMap[i]]
    /\ persistentFlowMap' =
           [i \in Cells |-> PersistentFlow(persistentFlowMap[i], flowMap[i])]
    /\ stepFrame' = [stepFrame EXCEPT !.pc = "booked"]
    /\ UNCHANGED <<terrainVars, config, waterMap, sedimentMap, flowMap,
                   flowDirectionMap, heightDeltaMap, dropVars, historyVars>>

\* 5. the commit: heightChanges goes to terrain.applyHeightmapChanges
StepCommit ==
    /\ stepFrame.pc = "booked"
    /\ IF DOMAIN stepFrame.heightChanges # {}
       THEN /\ heightmap' = ChangedHeightmap(heightmap, stepFrame.heightChanges)
            /\ positionsY' = ChangedPositions(positionsY, stepFrame.heightChanges)
            /\ textureData' = UpdatedTexture(heightmap')
            /\ writers' = {"applyHeightmapChanges"}
       ELSE /\ UNCHANGED terrainVars
            /\ writers' = {}
    /\ stepFrame' = [stepFrame EXCEPT !.pc = "committed"]
    /\ UNCHANGED <<erosionVars, dropVars, lastOp, opCount>>

\* the buffers become the live maps, and step() returns
StepSwap ==
    /\ stepFrame.pc = "committed"
    /\ waterMap' = stepFrame.newWaterMap
    /\ sedimentMap' = stepFrame.newSedimentMap
    /\ flowDirectionMap' = stepFrame.newFlowDirectionMap
    /\ stepFrame' = NoFrame
    /\ lastOp' = [op |-> "step", moves |-> stepFrame.moves,
                  heightsAtCall |-> stepFrame.heightsAtCall]
    /\ opCount' = opCount + 1
    /\ UNCHANGED <<terrainVars, config, flowMap, heightDeltaMap,
                   cumulativeErosionMap, persistentFlowMap, dropVars, writers>>

NextPhases ==
    \/ StepBegin
    \/ StepFlow
    \/ StepErode
    \/ StepEvaporate
    \/ StepBookkeeping
    \/ StepCommit
    \/ StepSwap
    \/ stepFrame = NoFrame /\ Reset

\* step() and reset() of the grid simulator, with the phases of step() as
\* steps of the behaviour
SpecPhases ==
    InitErosion /\ [][NextPhases]_vars

\* ------------------------------------------------------------------------
\* Brush strokes and height queries
\* ------------------------------------------------------------------------

\* applyBrush(terrain, x, z, config) without an erosion system
ApplyBrush ==
    /\ opCount < MaxStrokes
    /\ \E cfg \in BrushConfigs, p \in BrushPositions :
           /\ \E changes \in {BrushChanges(heightmap, p.x, p.z, cfg)} :
                  /\ heightmap' = ChangedHeightmap(heightmap, changes)
                  /\ positionsY' = ChangedPositions(positionsY, changes)
                  /\ textureData' = UpdatedTexture(heightmap')
                  /\ writers' = IF DOMAIN changes = {} THEN {}
                                ELSE {"applyHeightmapChanges"}
           /\ lastOp' = [op |-> "applyBrush", config |-> cfg, x |-> p.x, z |-> p.z]
    /\ opCount' = opCount + 1
    /\ UNCHANGED <<stepFrame, erosionVars, dropVars>>

\* terrain.getHeightAt(x, z)
GetHeightAt ==
    /\ opCount < MaxStrokes
    /\ \E x \in WorldCoords, z \in WorldCoords :
           lastOp' = [op |-> "getHeightAt", x |-> x, z |-> z,
                      index |-> HeightIndexAt(x, z),
                      result |-> GetHeightAtValue(heightmap, x, z)]
    /\ opCount' = opCount + 1
    /\ writers' = {}
    /\ UNCHANGED <<stepFrame, terrainVars, erosionVars, dropVars>>

NextBrush ==
    \/ ApplyBrush
    \/ GetHeightAt

\* the terrain with its editor before the first stroke; the grid simulator
\* keeps its default configuration
InitBrush ==
    /\ Init
    /\ config = DefaultErosionConfig
    /\ dropConfig = DefaultDropConfig

SpecBrush ==
    InitBrush /\ [][NextBrush]_vars

\* ------------------------------------------------------------------------
\* ErosionSystem (drop simulator): operations
\* ------------------------------------------------------------------------

\* ErosionSystem.updateConfig of the drop simulator
UpdateDropConfig ==
    /\ opCount < MaxStrokes
    /\ \E partial \in DropConfigPresets : dropConfig' = Merge(dropConfig, partial)
    /\ lastOp' = [op |-> "updateConfig"]
    /\ opCount' = opCount + 1
    /\ writers' = {}
    /\ UNCHANGED <<stepFrame, terrainVars, erosionVars, timeAccumulator>>

\* "Update terrain geometry" of update and applyErosionAt after the drops:
\* the vertices and the height texture follow the heights
DropsApplied(world) ==
    /\ heightmap' = world.hm
    /\ positionsY' = [i \in DOMAIN positionsY |-> world.hm[i]]
    /\ textureData' = UpdatedTexture(world.hm)
    /\ writers' = IF world.wrote THEN {"simulateDrop"} ELSE {}

\* ErosionSystem.update(deltaTime)
Update ==
    /\ opCount < MaxStrokes
    /\ \E deltaTime \in FrameTimes, rnd \in RandomStreams :
           /\ IF ~dropConfig.enabled
              THEN /\ UNCHANGED <<terrainVars, timeAccumulator>>
                   /\ writers' = {}
              ELSE IF timeAccumulator + deltaTime >= FrameInterval
              THEN /\ timeAccumulator' = 0
                   /\ \E world \in {AddRain(dropConfig, rnd, heightmap)} :
                          DropsApplied(world)
              ELSE /\ timeAccumulator' = timeAccumulator + deltaTime
                   /\ UNCHANGED terrainVars
                   /\ writers' = {}
           /\ lastOp' = [op |-> "update", deltaTime |-> deltaTime, random |-> rnd]
    /\ opCount' = opCount + 1
    /\ UNCHANGED <<stepFrame, erosionVars, dropConfig>>

\* applyBrush with the erosion brush and an erosion system:
\* erosionSystem.applyErosionAt(x, z, config.radius, config.strength)
ApplyErosionAt ==
    /\ opCount < MaxStrokes
    /\ \E cfg \in ErosionBrushConfigs, p \in BrushPositions, rnd \in RandomStreams :
           /\ \E world \in {ErosionAt(dropConfig, rnd, heightmap, p.x, p.z,
                                      cfg.radius, cfg.strength)} :
                  DropsApplied(world)
           /\ lastOp' = [op |-> "applyBrush", config |-> cfg, x |-> p.x, z |-> p.z,
                         random |-> rnd]
    /\ opCount' = opCount + 1
    /\ UNCHANGED <<stepFrame, erosionVars, dropVars>>

NextDrop ==
    \/ UpdateDropConfig
    \/ Update
    \/ ApplyErosionAt

\* the terrain with the drop simulator as the scene constructs it; the grid
\* simulator keeps its default configuration
InitDrop ==
    /\ Init
    /\ config = DefaultErosionConfig

SpecDrop ==
    InitDrop /\ [][NextDrop]_vars

\* ------------------------------------------------------------------------
\* Every operation that changes the terrain
\* ------------------------------------------------------------------------

\* the vertices modifyHeight raises: those of its box within radius of the
\* centre
RaisedCells(centerX, centerZ, radius) ==
    {i \in RegionIndices(centerX, centerZ, radius) :
        Leq(Hypot(VertexCoord(ColOf(i)) - centerX, VertexCoord(RowOf(i)) - centerZ),
            radius)}

\* TerrainSystem.modifyHeight with cosineFalloff: the heights it writes
ModifiedHeights(hm, centerX, centerZ, radius, strength) ==
    [i \in RaisedCells(centerX, centerZ, radius) |->
        Plus(hm[i],
             Times(strength,
                   CosineFalloff(Hypot(VertexCoord(ColOf(i)) - centerX,
                                       VertexCoord(RowOf(i)) - centerZ),
                                 radius)))]

\* the radius and the strength the callers of modifyHeight pass
HeightStrokes ==
    { [radius |-> Scale, strength |-> Scale \div 2],
      [radius |-> (15 * Scale) \div 10, strength |-> -Scale],
      [radius |-> (4 * Scale) \div 10, strength |-> Scale] }

\* terrain.modifyHeight(centerX, centerZ, radius, strength, cosineFalloff)
ModifyHeight ==
    /\ opCount < MaxStrokes
    /\ \E s \in HeightStrokes, p \in BrushPositions :
           /\ \E written \in {ModifiedHeights(heightmap, p.x, p.z, s.radius,
                                              s.strength)} :
                  /\ heightmap' = ChangedHeightmap(heightmap, written)
                  /\ positionsY' = [i \in DOMAIN positionsY |->
                                       IF i \in DOMAIN written THEN heightmap'[i]
                                       ELSE positionsY[i]]
                  /\ textureData' = UpdatedTexture(heightmap')
                  /\ writers' = IF DOMAIN written = {} THEN {} ELSE {"modifyHeight"}
           /\ lastOp' = [op |-> "modifyHeight", x |-> p.x, z |-> p.z,
                         radius |-> s.radius, strength |-> s.strength]
    /\ opCount' = opCount + 1
    /\ UNCHANGED <<stepFrame, erosionVars, dropVars>>

\* the maps of index to height a caller hands to applyHeightmapChanges
ChangeMaps ==
    { NoChanges,
      [i \in {0} |-> 3 * Scale],
      [i \in {HeightIndexAt(0, 0), CellCount - 1} |-> IF i = CellCount - 1 THEN -Scale ELSE MaxHeight] }

\* terrain.applyHeightmapChanges(changes)
ApplyHeightmapChanges ==
    /\ opCount < MaxStrokes
    /\ \E changes \in ChangeMaps :
           /\ heightmap' = ChangedHeightmap(heightmap, changes)
           /\ positionsY' = ChangedPositions(positionsY, changes)
           /\ textureData' = UpdatedTexture(heightmap')
           /\ writers' = IF DOMAIN changes = {} THEN {} ELSE {"applyHeightmapChanges"}
           /\ lastOp' = [op |-> "applyHeightmapChanges", changes |-> changes]
    /\ opCount' = opCount + 1
    /\ UNCHANGED <<stepFrame, erosionVars, dropVars>>

\* every height is a finite number
FiniteHeights ==
    \A i \in Cells : IsFinite(heightmap[i])

\* the editor and both simulators at work on one terrain: every operation
\* that changes heights, in any order; the simulators run while the heights
\* are finite numbers
NextTerrain ==
    \/ ModifyHeight
    \/ ApplyHeightmapChanges
    \/ ApplyBrush
    \/ opCount < MaxStrokes /\ FiniteHeights /\ Step
    \/ FiniteHeights /\ Update
    \/ FiniteHeights /\ ApplyErosionAt

\* the terrain as constructed, the grid simulator with its default
\* configuration and the drop simulator enabled with one drop per frame
InitTerrain ==
    /\ Init
    /\ config = DefaultErosionConfig
    /\ dropConfig.enabled
    /\ dropConfig.iterations = Scale

SpecTerrain ==
    InitTerrain /\ [][NextTerrain]_vars

\* ------------------------------------------------------------------------
\* Properties of the grid simulator
\* ------------------------------------------------------------------------

\* the transition is a call of ErosionSystem.step
IsStep ==
    lastOp'.op = "step" /\ opCount' = opCount + 1

\* the transition is a call of ErosionSystem.reset
IsReset ==
    lastOp'.op = "reset" /\ opCount' = opCount + 1

\* C1: started from heights within [minHeight, maxHeight], every height is
\* within [minHeight, maxHeight] after any number of step() calls, under
\* every configuration and with debugAggressive on or off.
C1_HeightsStayInRange ==
    \A i \in Cells : MinHeight <= heightmap[i] /\ heightmap[i] <= MaxHeight

\* C1, the case: the last step eroded a cell down to minHeight
C1_ErodedToMinHeight ==
    /\ lastOp.op = "step"
    /\ \E i \in Cells : heightDeltaMap[i] < 0 /\ heightmap[i] = MinHeight

\* C3: at the end of every step() the water and the sediment of every cell
\* are non-negative, whatever configuration the constructor or updateConfig
\* has set.
C3_WaterAndSedimentNonNegative ==
    \A i \in Cells : waterMap[i] >= 0 /\ sedimentMap[i] >= 0

C7_ResetZeroesMapsOnly ==
    [][IsReset =>
         /\ \A i \in Cells :
                /\ waterMap'[i] = 0
                /\ sedimentMap'[i] = 0
                /\ flowMap'[i] = 0
                /\ heightDeltaMap'[i] = 0
                /\ cumulativeErosionMap'[i] = 0
                /\ persistentFlowMap'[i] = 0
         /\ \A k \in DOMAIN flowDirectionMap' : flowDirectionMap'[k] = 0
         /\ heightmap' = heightmap
         /\ config' = config]_vars

\* C7, the case: a reset after steps that eroded the terrain
C7_ResetAfterErosion ==
    /\ lastOp.op = "reset"
    /\ heightmap \notin Terrains

\* C9: step() divides by no zero, so that no NaN is written to a map of the
\* simulation or to a height.
C9_NoNaNWritten ==
    /\ \A i \in Cells :
           /\ ~IsNaN(waterMap[i])
           /\ ~IsNaN(sedimentMap[i])
           /\ ~IsNaN(flowMap[i])
           /\ ~IsNaN(heightDeltaMap[i])
           /\ ~IsNaN(heightmap[i])
    /\ \A k \in DOMAIN flowDirectionMap : ~IsNaN(flowDirectionMap[k])

\* every cell has the same height
IsFlat(hm) ==
    \A i, j \in Cells : hm[i] = hm[j]

\* the transition is a step() on a terrain whose heights are all equal, with
\* no water and no sediment on it
IsStepOnDryFlat ==
    /\ IsStep
    /\ IsFlat(heightmap)
    /\ waterMap = ZeroMap
    /\ sedimentMap = ZeroMap

\* the water one step leaves on a cell that had none and neither gave nor
\* received any: rainfallRate * (1 - evaporationRate), and ten times the
\* rainfall, not evaporated, under debugAggressive
RainLeft(cfg) ==
    IF cfg.debugAggressive THEN 10 * cfg.rainfallRate
    ELSE Mul(cfg.rainfallRate, Scale - cfg.evaporationRate)

Adjacent(i, j) ==
    \/ RowOf(i) = RowOf(j) /\ Abs(ColOf(i) - ColOf(j)) = 1
    \/ ColOf(i) = ColOf(j) /\ Abs(RowOf(i) - RowOf(j)) = 1

\* cell j lies below cell i by a slope > minSlopeForFlow
FlowsDownTo(cfg, hm, i, j) ==
    Div(hm[i] - hm[j], CellSize) > cfg.minSlopeForFlow

\* C17: during flow routing a cell transfers water and sediment only to
\* in-grid axis-adjacent neighbours whose slope
\* (selfHeight - neighbourHeight) / cellSize is > minSlopeForFlow: every
\* transport of a step goes to such a neighbour, and a cell whose water
\* after the flow exceeds its water and rain has such a neighbour above it;
\* nothing goes to an equal or higher neighbour, to a diagonal or distant
\* cell, or across a grid edge.
C17_FlowOnlyToLowerAdjacentCells ==
    [][IsStep =>
         /\ \A m \in lastOp'.moves :
                /\ m.from \in Cells
                /\ m.to \in Cells
                /\ Adjacent(m.from, m.to)
                /\ FlowsDownTo(config, heightmap, m.from, m.to)
         /\ \A j \in Cells :
                lastOp'.routedWater[j] > waterMap[j] + EffectiveRainfallRate(config)
                    => \E i \in Cells : /\ Adjacent(i, j)
                                        /\ FlowsDownTo(config, heightmap, i, j)]_vars

\* C17, the case: a step on the ridged terrain has moved water along a row
\* and along a column, out of a cell of the first column and out of a cell of
\* the last column, and a cell with a lower neighbour kept a higher
\* neighbour dry of its water
C17_FlowedAlongRowsAndColumns ==
    /\ lastOp.op = "step"
    /\ \E m \in lastOp.moves : RowOf(m.from) = RowOf(m.to) /\ m.water > 0
    /\ \E m \in lastOp.moves : ColOf(m.from) = ColOf(m.to) /\ m.water > 0
    /\ \E m \in lastOp.moves : ColOf(m.from) = 0
    /\ \E m \in lastOp.moves : ColOf(m.from) = Segments
    /\ \E m \in lastOp.moves :
           \E j \in Cells : /\ Adjacent(m.from, j)
                            /\ heightmap[j] > heightmap[m.from]
                            /\ \A k \in lastOp.moves : ~(k.from = m.from /\ k.to = j)

\* the share of the outflow of a cell that a transport carries:
\* adjustedSlope / sum of the adjustedSlopes
ShareOf(m) ==
    Div(m.slope, m.totalOutflow)

\* the transition is a step() after which every cell has the sediment it
\* had before, plus what the transports brought it, minus what they took
\* from it, plus what it eroded or minus what it deposited
SedimentOnlyTransported ==
    \A j \in Cells : heightDeltaMap'[j] = 0 =>
        sedimentMap'[j] =
            sedimentMap[j]
            + SumTo([i \in Cells |->
                        IF \E m \in lastOp'.moves : m.from = i /\ m.to = j
                        THEN (CHOOSE m \in lastOp'.moves :
                                  m.from = i /\ m.to = j).sediment
                        ELSE 0], CellCount - 1)
            - SumTo([i \in Cells |->
                        IF \E m \in lastOp'.moves : m.from = j /\ m.to = i
                        THEN (CHOOSE m \in lastOp'.moves :
                                  m.from = j /\ m.to = i).lost
                        ELSE 0], CellCount - 1)

\* C18: for every cell and every neighbour that receives outflow in a step,
\* the fraction of the cell's suspended sediment moved to that neighbour
\* equals the fraction of the cell's water moved to it
\* (adjustedSlope / sum of adjustedSlopes): the neighbour gains and the cell
\* loses that share of the sediment; sediment is never moved to a neighbour
\* that receives no water (a cell without water gives no sediment away),
\* and the sediment of a cell that neither erodes nor deposits changes by
\* these transports only.
C18_SedimentMovesWithWater ==
    [][IsStep =>
         /\ \A m \in lastOp'.moves :
                /\ m.water = Mul(m.waterAmount, ShareOf(m))
                /\ m.sediment = IF m.waterAmount > 0
                                 THEN Mul(m.sedimentAmount, ShareOf(m))
                                 ELSE 0
                /\ m.lost = m.sediment
                /\ m.sediment # 0 => m.waterAmount > 0 /\ ShareOf(m) > 0
         /\ SedimentOnlyTransported]_vars

\* C18, the case: a step has split the water and the sediment of a cell
\* between two neighbours, each getting a part of the sediment
C18_SedimentSplit ==
    /\ lastOp.op = "step"
    /\ \E m, k \in lastOp.moves :
           /\ m.from = k.from
           /\ m.to # k.to
           /\ m.sediment > 0
           /\ k.sediment > 0
           /\ m.water > 0
           /\ k.water > 0

\* the transition is a step() with flowInertia and evaporationRate in [0, 1]
IsBudgetStep ==
    /\ IsStep
    /\ 0 <= config.flowInertia
    /\ config.flowInertia <= Scale
    /\ 0 <= config.evaporationRate
    /\ config.evaporationRate <= Scale

\* the sum of a map over the grid
Total(map) ==
    SumTo(map, CellCount - 1)

UnitDirections ==
    \A k \in DOMAIN flowDirectionMap : Abs(flowDirectionMap[k]) <= Scale

BeforeCommit ==
    {"rained", "routed", "eroded", "evaporated", "booked"}

\* the transition is the commit of a step()
IsCommit ==
    stepFrame.pc = "booked" /\ stepFrame'.pc = "committed"

\* the transition is the return of a step()
IsSwap ==
    stepFrame.pc = "committed" /\ stepFrame' = NoFrame

\* the heights after the commit are those of the call with every cell
\* changed once: a cell of heightChanges holds the height of the call moved
\* by its heightDeltaMap entry and kept within [minHeight, maxHeight], and
\* every other cell holds the height of the call
CommittedOnce(atCall, committed, changes, delta) ==
    \A i \in Cells :
        IF i \in DOMAIN changes
        THEN committed[i] = changes[i]
             /\ committed[i] = ClampHeight(atCall[i] + delta[i])
        ELSE committed[i] = atCall[i]

\* what step() leaves is what the routing and the capacity phase compute
\* from the heights of the call
ComputedFromHeightsAtCall(frame, outcome) ==
    /\ frame.newWaterMap = outcome.newWaterMap
    /\ frame.newSedimentMap = outcome.newSedimentMap
    /\ frame.newFlowDirectionMap = outcome.newFlowDirectionMap
    /\ frame.heightChanges = outcome.heightChanges
    /\ heightDeltaMap = outcome.heightDeltaMap

\* C20: within one step() the terrain heights are not modified before the
\* commit: until the commit the heights are those step() was called with, so
\* that every slope of the flow routing and of the capacity phase is
\* computed from them; each cell's height is written at most once; all
\* height changes are applied in one applyHeightmapChanges batch, after the
\* evaporation and the bookkeeping and before the new water, sediment and
\* flow-direction buffers become the live maps.
C20_HeightsChangeOnlyAtCommit ==
    [][/\ heightmap' # heightmap => IsCommit
       /\ stepFrame'.pc \in BeforeCommit => heightmap' = stepFrame'.heightsAtCall
       /\ IsCommit =>
              /\ CommittedOnce(stepFrame.heightsAtCall, heightmap',
                               stepFrame.heightChanges, heightDeltaMap)
              /\ waterMap' = waterMap
              /\ sedimentMap' = sedimentMap
              /\ flowDirectionMap' = flowDirectionMap
       /\ IsSwap =>
              /\ waterMap' = stepFrame.newWaterMap
              /\ sedimentMap' = stepFrame.newSedimentMap
              /\ flowDirectionMap' = stepFrame.newFlowDirectionMap
              /\ heightmap' = heightmap
              /\ ComputedFromHeightsAtCall(
                     stepFrame,
                     StepResult(config, stepFrame.heightsAtCall, waterMap,
                                sedimentMap, stepFrame.flowAtCall,
                                flowDirectionMap))]_vars

\* C20, the case: a step() has committed heights that differ from those it
\* was called with, after eroding one cell and depositing on another, and
\* its water buffer is not yet the live map
C20_CommittedBeforeSwap ==
    /\ stepFrame.pc = "committed"
    /\ heightmap # stepFrame.heightsAtCall
    /\ \E i \in Cells : heightDeltaMap[i] < 0
    /\ \E j \in Cells : heightDeltaMap[j] > 0
    /\ waterMap # stepFrame.newWaterMap
    /\ writers = {"applyHeightmapChanges"}

\* C21: flow routing in a step is a double-buffered update: the water and
\* the sediment a cell sends out are computed from what the cell held after
\* the rainfall and before any routing, not from amounts that arrived from
\* other cells earlier in the same step.
C21_RoutingReadsAmountsBeforeRouting ==
    [][IsStep =>
         \A m \in lastOp'.moves :
             /\ m.waterAmount = Rainfall(config, waterMap)[m.from]
             /\ m.sedimentAmount = sedimentMap[m.from]]_vars

\* C22: after every step, for every cell i,
\* persistentFlowMap'[i] = min(1.0, 0.95 * persistentFlowMap[i]
\* + 0.1 * flowMap[i]) with flowMap[i] the flow magnitude of the cell in that
\* step (here for the cells whose flow magnitude is a number, and up to one
\* unit of the resolution of the numbers).
C22_PersistentFlowAddsEveryFlow ==
    [][IsStep =>
         \A i \in Cells :
             ~IsNaN(flowMap'[i]) =>
                 Abs(persistentFlowMap'[i]
                     - Min2(Scale, Mul(persistentFlowMap[i], FlowDecay)
                                   + Mul(flowMap'[i], Scale \div 10))) <= 1]_vars

\* C22, the consequence: 0 <= persistentFlowMap[i] <= 1 for every cell in
\* every reachable state
PersistentFlowInUnitRange ==
    \A i \in Cells : 0 <= persistentFlowMap[i] /\ persistentFlowMap[i] <= Scale

\* the transfers of the step that leave cell i
SentFrom(i) ==
    {m \in lastOp'.moves : m.from = i}

\* C23: after every step, for every cell i,
\* flowMap[i] = sqrt(water_i) * (totalOutflow_i / 4) if the cell sent water
\* to at least one qualifying downhill neighbour in that step, and
\* flowMap[i] = 0 otherwise: a cell that routed no water in the step keeps no
\* flow value of an earlier step.
C23_FlowMapHoldsTheFlowOfTheStep ==
    [][IsStep =>
         \A i \in Cells :
             IF SentFrom(i) # {}
             THEN \A m \in SentFrom(i) :
                      flowMap'[i] = Mul(Sqrt(m.waterAmount), m.totalOutflow \div 4)
             ELSE flowMap'[i] = 0]_vars

\* the transition is the erosion and deposition phase of a step()
IsErodePhase ==
    stepFrame.pc = "routed" /\ stepFrame'.pc = "eroded"

\* the sediment capacity of cell i in the erosion and deposition phase
CapacityOf(i) ==
    SedimentCapacity(config, flowMap[i], stepFrame.newWaterMap[i], AvgSlope(config, heightmap, i))

\* min(deficit * erosionRate, maxErosion, water * velocity * avgSlope *
\* erosionRate) of cell i, with the effective rates
ErosionOf(i) ==
    Min2(Min2(Mul(CapacityOf(i) - stepFrame.newSedimentMap[i], EffectiveErosionRate(config)), EffectiveMaxErosion(config)), Mul(Mul(Mul(stepFrame.newWaterMap[i], flowMap[i]), AvgSlope(config, heightmap, i)), EffectiveErosionRate(config)))

\* excess * depositionRate of cell i
DepositOf(i) ==
    Mul(stepFrame.newSedimentMap[i] - CapacityOf(i), config.depositionRate)

ErodedOnly(i) ==
    /\ stepFrame.newSedimentMap[i] < CapacityOf(i)
    /\ stepFrame'.newSedimentMap[i] = stepFrame.newSedimentMap[i] - heightDeltaMap'[i]
    /\ i \in DOMAIN stepFrame'.heightChanges
    /\ stepFrame'.heightChanges[i] = ErodedHeight(heightmap[i], - heightDeltaMap'[i])

\* cell i has changed as a cell that deposits: its sediment shrinks by the
\* height delta, not below 0, and its new height is not below the old one
DepositedOnly(i) ==
    /\ stepFrame.newSedimentMap[i] > CapacityOf(i)
    /\ stepFrame'.newSedimentMap[i] = SedimentAfterDeposit(stepFrame.newSedimentMap[i], heightDeltaMap'[i])
    /\ i \in DOMAIN stepFrame'.heightChanges
    /\ stepFrame'.heightChanges[i] = DepositedHeight(heightmap[i], heightDeltaMap'[i])

\* cell i has neither eroded nor deposited
NeitherErodedNorDeposited(i) ==
    /\ stepFrame'.newSedimentMap[i] = stepFrame.newSedimentMap[i]
    /\ i \notin DOMAIN stepFrame'.heightChanges

\* C25: in one step a cell either erodes, deposits, or does neither, never
\* both: heightDeltaMap[i] < 0 implies that the sediment of the cell was
\* below its capacity and the cell has only eroded, heightDeltaMap[i] > 0
\* implies that it was above its capacity and the cell has only deposited,
\* and a cell with heightDeltaMap[i] = 0 has changed neither its sediment nor
\* its height.
C25_ErodeOrDepositNeverBoth ==
    [][IsErodePhase =>
         \A i \in Cells :
             /\ heightDeltaMap'[i] < 0 => ErodedOnly(i)
             /\ heightDeltaMap'[i] > 0 => DepositedOnly(i)
             /\ heightDeltaMap'[i] = 0 => NeitherErodedNorDeposited(i)]_vars

\* C25, the case: an erosion and deposition phase in which one cell has
\* eroded, one has deposited and one, holding water, has done neither
C25_ErodedDepositedAndNeither ==
    /\ stepFrame.pc = "eroded"
    /\ \E i \in Cells : heightDeltaMap[i] < 0
    /\ \E j \in Cells : heightDeltaMap[j] > 0
    /\ \E k \in Cells : /\ heightDeltaMap[k] = 0
                        /\ stepFrame.newWaterMap[k] >= config.minWaterForFlow

\* C26: after every step, heightDeltaMap[i] equals the actual change of the
\* terrain height i made by that step (the height after the commit minus
\* the height before the step), also when the change is clamped at minHeight
\* or maxHeight.
C26_DeltaIsTheChangeOfHeight ==
    [][IsStep =>
         \A i \in Cells : heightDeltaMap'[i] = heightmap'[i] - heightmap[i]]_vars

\* ------------------------------------------------------------------------
\* Properties of the terrain and the brushes
\* ------------------------------------------------------------------------

\* the transition is a call of applyBrush
IsStroke ==
    lastOp'.op = "applyBrush" /\ opCount' = opCount + 1

\* the BrushConfig has radius > 0 and aspectRatio > 0
ValidBrush(cfg) ==
    cfg.radius > 0 /\ cfg.aspectRatio > 0

\* every height lies in [minHeight, maxHeight]
HeightsInRange(hm) ==
    \A i \in Cells : MinHeight <= hm[i] /\ hm[i] <= MaxHeight

\* C2: a stroke of applyBrush with a valid config on a terrain whose heights
\* all lie in [minHeight, maxHeight] leaves every height in
\* [minHeight, maxHeight].
C2_StrokeKeepsHeightsInRange ==
    [][(IsStroke /\ ValidBrush(lastOp'.config) /\ HeightsInRange(heightmap))
           => HeightsInRange(heightmap')]_vars

\* C5: a stroke of applyBrush with radius <= 0 or aspectRatio <= 0 leaves
\* every height, every vertex and the height texture unchanged.
C5_InvalidStrokeChangesNothing ==
    [][(IsStroke /\ ~ValidBrush(lastOp'.config))
           => terrainVars' = terrainVars]_vars

\* c is the column (row) of the cell that holds the world coordinate w: the
\* first one for a coordinate left of the terrain, the last one for a
\* coordinate right of it, and otherwise the one whose vertex is the nearest
\* at or below w
HoldsCoord(c, w) ==
    IF w <= -(TerrainSize \div 2) THEN c = 0
    ELSE IF w >= TerrainSize \div 2 THEN c = Segments
    ELSE /\ c * TerrainSize <= (w + TerrainSize \div 2) * Segments
         /\ (w + TerrainSize \div 2) * Segments < (c + 1) * TerrainSize

\* C8: for world coordinates inside and outside the terrain, getHeightAt
\* returns the height of the cell whose row and column are the floors of the
\* grid coordinates clamped to [0, segments]: the index is within
\* [0, N*N - 1], and a coordinate beyond an edge reads the cell at that edge.
C8_GetHeightAtClamps ==
    lastOp.op = "getHeightAt" =>
        /\ lastOp.index \in 0 .. CellCount - 1
        /\ lastOp.result = heightmap[lastOp.index]
        /\ HoldsCoord(lastOp.index % (Segments + 1), lastOp.x)
        /\ HoldsCoord(lastOp.index \div (Segments + 1), lastOp.z)

\* C8, the case: a height was asked for left of the terrain and beyond its
\* far edge, and the cell of the first column in the last row was read
C8_AskedOutsideTheTerrain ==
    /\ lastOp.op = "getHeightAt"
    /\ lastOp.x < -(TerrainSize \div 2)
    /\ lastOp.z > TerrainSize \div 2
    /\ lastOp.index = Segments * (Segments + 1)

\* the transition is a call of applyFlattenBrush with strength = 1 and a
\* valid config on a terrain of finite heights
IsFullFlatten ==
    /\ IsStroke
    /\ lastOp'.config.type = "flatten"
    /\ lastOp'.config.strength = Scale
    /\ ValidBrush(lastOp'.config)
    /\ \A i \in Cells : IsFinite(heightmap[i])

MovedToward(old, new, target, distance) ==
    /\ distance = 0 => new = target
    /\ distance = Scale => new = old
    /\ Min2(old, target) <= new
    /\ new <= Max2(old, target)

\* the heights new are the heights old flattened towards target
FlattenedToward(old, new, x, z, cfg, target) ==
    \A i \in Cells :
        IF i \in Footprint(x, z, cfg)
        THEN MovedToward(old[i], new[i], target, BrushDistanceAt(i, x, z, cfg))
        ELSE new[i] = old[i]

IsSmooth ==
    /\ IsStroke
    /\ lastOp'.config.type = "smooth"
    /\ 0 <= lastOp'.config.strength
    /\ lastOp'.config.strength <= Scale
    /\ \A i \in Cells : IsFinite(heightmap[i])

\* new lies in the closed interval between old and goal
Between(old, new, goal) ==
    Min2(old, goal) <= new /\ new <= Max2(old, goal)

\* the heights new are the heights old smoothed by a stroke at (x, z): every
\* changed cell lies between its old height and the weighted average of the
\* old heights of the region cells within 0.3 * radius of it, and the other
\* cells keep their heights
SmoothedToward(old, new, x, z, cfg) ==
    \A i \in Cells :
        IF i \in SmoothedCells(RegionIndices(x, z, cfg.radius), x, z, cfg)
        THEN Between(old[i], new[i],
                     SmoothAverage(old, RegionIndices(x, z, cfg.radius), i,
                                   Times(cfg.radius, (3 * Scale) \div 10)))
        ELSE new[i] = old[i]

\* C11: for strength in [0, 1], each applySmoothBrush call moves every cell
\* of the footprint to a value in the closed interval between its previous
\* height and the gaussian-weighted average of the previous heights within
\* 0.3 * radius of it, never past that average; this holds for every stroke
\* of a sequence of strokes.
C11_SmoothStaysBetweenHeightAndAverage ==
    [][IsSmooth =>
         SmoothedToward(heightmap, heightmap', lastOp'.x, lastOp'.z,
                        lastOp'.config)]_vars

\* C11, the case: the second stroke, a smooth stroke of strength 1 at the
\* centre of a ramp, has left the middle cell at its height, the cell below
\* it above 0 and the cell above it below 2
C11_SmoothedTwice ==
    /\ opCount = 2
    /\ lastOp.op = "applyBrush"
    /\ lastOp.config = Brush("smooth", "square", 4 * Scale, Scale, Scale, 0)
    /\ lastOp.x = 0
    /\ lastOp.z = 0
    /\ 0 < heightmap[1]
    /\ heightmap[1] < heightmap[4]
    /\ heightmap[4] = Scale
    /\ heightmap[4] < heightmap[7]
    /\ heightmap[7] < 2 * Scale

\* the transition is a call of applyRaiseBrush or applyLowerBrush
IsRaiseOrLower ==
    /\ IsStroke
    /\ lastOp'.config.type \in {"raise", "lower"}

\* height moved up (raise) or down (lower) by amount
MovedBy(type, height, amount) ==
    IF type = "raise" THEN Plus(height, amount) ELSE Minus(height, amount)

\* a cell at shape distance d <= 1 went from old to new by the cosine falloff
\* of d * radius times strength: by exactly strength at d = 0, by nothing at
\* d = 1
RaisedOrLoweredAt(type, old, new, d, radius, strength) ==
    /\ new = MovedBy(type, old,
                     Times(CosineFalloff(Times(d, radius), radius), strength))
    /\ d = 0 => new = MovedBy(type, old, strength)
    /\ d = Scale => new = old

\* the heights new are the heights old after a raise or lower stroke at
\* (x, z): the region cells with distance <= 1 are moved, the others keep
\* their heights
RaisedOrLowered(old, new, x, z, cfg) ==
    \A i \in Cells :
        IF /\ i \in RegionIndices(x, z, cfg.radius)
           /\ Leq(BrushDistanceAt(i, x, z, cfg), Scale)
        THEN RaisedOrLoweredAt(cfg.type, old[i], new[i],
                               BrushDistanceAt(i, x, z, cfg), cfg.radius,
                               cfg.strength)
        ELSE new[i] = old[i]

BoundedShapes ==
    {"circle", "square", "diamond", "star", "ellipse"}

\* C13: for every brush shape with a bounded footprint and a valid config,
\* with any rotation, every grid cell whose brush distance is <= 1 is among
\* the cells of getHeightmapRegion(centerX, centerZ, radius): the region box
\* is a superset of the footprint of the shape.
C13_RegionCoversFootprint ==
    (/\ lastOp.op = "applyBrush"
     /\ lastOp.config.shape \in BoundedShapes
     /\ ValidBrush(lastOp.config))
        => \A i \in Cells :
               Leq(BrushDistanceAt(i, lastOp.x, lastOp.z, lastOp.config), Scale)
                   => i \in RegionIndices(lastOp.x, lastOp.z, lastOp.config.radius)

\* the transition is a call of applyFlattenBrush
IsFlatten ==
    IsStroke /\ lastOp'.config.type = "flatten"

\* the mean of the heights hm over the cells of a set, each counted once with
\* weight 1, and 0 for the empty set
MeanOrZero(hm, cells) ==
    IF cells = {} THEN 0
    ELSE Quot(SumOver(hm, cells, CellCount - 1), Cardinality(cells) * Scale)

\* the heights new are the heights old flattened towards target by the
\* stroke of cfg at (x, z): every cell the stroke does not skip is blended
\* with the target by the factor of its distance, every other cell is kept
FlattenedBy(old, new, x, z, cfg, target) ==
    \E unskipped \in {Unskipped(x, z, cfg)} :
        \A i \in Cells :
            new[i] = IF i \in unskipped
                     THEN Blended(old[i], target,
                                  BrushFactor(BrushDistanceAt(i, x, z, cfg),
                                              cfg.radius, cfg.strength))
                     ELSE old[i]

\* C27: applyFlattenBrush flattens towards 0 when no region cell lies within
\* the distance 0.2 * radius of the brush centre, and otherwise towards the
\* unweighted mean of the heights before the call of exactly the region cells
\* within that distance, whatever the shape of the brush: every cell the
\* stroke does not skip ends at its height blended with that target by the
\* factor of its distance, and every other cell keeps its height.
C27_FlattenTargetIsCentreMeanOrZero ==
    [][IsFlatten =>
         \E target \in {MeanOrZero(heightmap,
                                   CenterCells(lastOp'.x, lastOp'.z,
                                               lastOp'.config.radius))} :
             FlattenedBy(heightmap, heightmap', lastOp'.x, lastOp'.z,
                         lastOp'.config, target)]_vars

\* C27, the case: a flatten stroke of radius 1.5 beside the centre vertex, with
\* no vertex within 0.3 of it, has changed the heights of an unedited terrain
C27_FlattenedTowardZero ==
    /\ opCount = 1
    /\ lastOp.op = "applyBrush"
    /\ lastOp.config = Brush("flatten", "circle", (15 * Scale) \div 10, Scale, Scale, 0)
    /\ CenterCells(lastOp.x, lastOp.z, lastOp.config.radius) = {}
    /\ Unskipped(lastOp.x, lastOp.z, lastOp.config) # {}
    /\ heightmap \notin Terrains

\* cell i is outside the region box of the stroke or a region cell with
\* shape distance > 1
OutsideTheBrush(i, x, z, cfg) ==
    \/ i \notin RegionIndices(x, z, cfg.radius)
    \/ Gt(BrushDistanceAt(i, x, z, cfg), Scale)

\* the cells the smooth stroke changes have the heights new blended from
\* the heights old with the weighted average of the heights old
SmoothedFrom(old, new, x, z, cfg) ==
    \E region \in {RegionIndices(x, z, cfg.radius)} :
        \A i \in SmoothedCells(region, x, z, cfg) :
            new[i] = Blended(old[i],
                             SmoothAverage(old, region, i,
                                           Times(cfg.radius, (3 * Scale) \div 10)),
                             BrushFactor(BrushDistanceAt(i, x, z, cfg), cfg.radius,
                                         cfg.strength))

\* the cells of the footprint have the heights new that three passes over a
\* copy of the heights old leave, each pass reading the copy of the pass
\* before it
ErodedFrom(old, new, x, z, cfg) ==
    \E worn \in {ErosionPasses(old, RegionIndices(x, z, cfg.radius), x, z, cfg, 3)} :
        \A i \in Footprint(x, z, cfg) : new[i] = worn[i]

\* the cells of the footprint have the heights new moved from their heights
\* old by the factor of their distance
RaisedOrLoweredFrom(old, new, x, z, cfg) ==
    \A i \in Footprint(x, z, cfg) :
        new[i] = MovedBy(cfg.type, old[i],
                         BrushFactor(BrushDistanceAt(i, x, z, cfg), cfg.radius,
                                     cfg.strength))

\* the heights new of the cells the stroke changes are computed from the
\* heights old alone
FromHeightsBefore(old, new, x, z, cfg) ==
    CASE cfg.type = "smooth" -> SmoothedFrom(old, new, x, z, cfg)
      [] cfg.type = "erosion" -> ErodedFrom(old, new, x, z, cfg)
      [] cfg.type = "flatten" ->
             FlattenedBy(old, new, x, z, cfg,
                         MeanOrZero(old, CenterCells(x, z, cfg.radius)))
      [] OTHER -> RaisedOrLoweredFrom(old, new, x, z, cfg)

\* C29: a stroke of applyBrush of type raise, lower, smooth, flatten or
\* erosion without an erosion system keeps the height of every cell outside
\* the region box and of every region cell whose shape distance is > 1,
\* computes every new height from the heights as they were before the call,
\* and changes no map and no setting of the erosion system.
C29_StrokeChangesFootprintFromOldHeights ==
    [][IsStroke =>
         /\ \A i \in Cells :
                OutsideTheBrush(i, lastOp'.x, lastOp'.z, lastOp'.config)
                    => heightmap'[i] = heightmap[i]
         /\ FromHeightsBefore(heightmap, heightmap', lastOp'.x, lastOp'.z,
                              lastOp'.config)
         /\ UNCHANGED erosionVars]_vars

\* C29, the case: the second stroke, a smooth stroke of a circle of radius 4
\* and strength 0.5 beside the centre, has changed heights that an earlier
\* stroke had changed
C29_SmoothedAfterAStroke ==
    /\ opCount = 2
    /\ lastOp.op = "applyBrush"
    /\ lastOp.config = Brush("smooth", "circle", 4 * Scale, Scale \div 2, Scale, 0)
    /\ lastOp.x = (4 * Scale) \div 10
    /\ writers = {"applyHeightmapChanges"}
    /\ FiniteHeights
    /\ \A t \in Terrains : \E i \in Cells : heightmap[i] # t[i]

\* C30: for every brush shape (circle, square, diamond, star, line,
\* ellipse), radius > 0, aspectRatio > 0 and any rotation, the brush centre
\* itself, the offset dx = 0, dz = 0, has the normalized distance 0 and
\* isPointInBrush is true for it.
C30_CentreHasDistanceZero ==
    (lastOp.op = "applyBrush" /\ ValidBrush(lastOp.config))
        => /\ CalculateBrushDistance(0, 0, lastOp.config.shape,
                                     lastOp.config.radius,
                                     lastOp.config.aspectRatio,
                                     lastOp.config.rotation) = 0
           /\ IsPointInBrush(0, 0, lastOp.config.shape, lastOp.config.radius,
                             lastOp.config.aspectRatio, lastOp.config.rotation)

\* ------------------------------------------------------------------------
\* Properties of the drop simulator
\* ------------------------------------------------------------------------

\* C6: every write of an element of terrain.heightmap is made by a method of
\* TerrainSystem, modifyHeight or applyHeightmapChanges: no brush, no frame of
\* the erosion and no erosion brush handed to applyErosionAt writes the
\* heights itself.
C6_OnlyTerrainMethodsWriteHeights ==
    writers \subseteq {"modifyHeight", "applyHeightmapChanges"}

\* the transition is a stroke of the erosion brush handed to applyErosionAt
IsErosionStroke ==
    lastOp'.op = "applyBrush" /\ opCount' = opCount + 1

\* C14: determinism: two runs started from identical heights, configuration
\* and maps that receive the same calls, the erosion brush handed to
\* applyErosionAt included, end with identical heights: the heights after a
\* stroke are those of every run that makes the same call in the same state,
\* whatever numbers it draws.
C14_SameCallsSameHeights ==
    [][IsErosionStroke =>
         \A rnd \in RandomStreams :
             heightmap' = ErosionAt(dropConfig, rnd, heightmap, lastOp'.x,
                                    lastOp'.z, lastOp'.config.radius,
                                    lastOp'.config.strength).hm]_vars

\* ------------------------------------------------------------------------
\* Properties of all operations on the terrain
\* ------------------------------------------------------------------------

\* C28: after every operation that changes the terrain (modifyHeight,
\* applyHeightmapChanges, applyBrush of any type, step() of the grid
\* simulator, update() and applyErosionAt() of the drop simulator) the
\* y-component of every vertex position and every texel of the heightmap
\* texture equal the height of their cell.
C28_MirrorsAgreeWithHeights ==
    \A i \in Cells :
        /\ positionsY[i] = heightmap[i]
        /\ textureData[i] = heightmap[i]

\* C28, the case: the second operation on the terrain, a step() of the grid
\* simulator, has handed height changes to applyHeightmapChanges and left
\* heights that are those of no terrain as constructed
C28_SteppedAfterAnotherOperation ==
    /\ opCount = 2
    /\ lastOp.op = "step"
    /\ writers = {"applyHeightmapChanges"}
    /\ heightmap \notin Terrains

====
